---------------------------- MODULE Spec2Model ----------------------------
(***************************************************************************)
(* rag.js: the text chunker (chunkText and its helpers) and the flat       *)
(* vector store (VectorStore), modelled from src/src/vector-store.ts.      *)
(*                                                                         *)
(* A JavaScript string is a sequence of one-character strings.  Indices in *)
(* the operators that mirror String methods are JavaScript's (0-based).    *)
(* An optional value is a sequence of length 0 (undefined) or 1.           *)
(***************************************************************************)
EXTENDS Integers, Sequences, FiniteSets, TLC

VARIABLES text, opts, pc, err, segs, current, overlapBuffer, out,
          model, dimensions, chunks, blob, last, provider, handedOut, awaiting

chunkerVars == <<text, opts, pc, err, segs, current, overlapBuffer, out>>

storeVars == <<model, dimensions, chunks, blob, last>>

(* What callers hold: the index serialize handed out, and the calls that   *)
(* are suspended at an await.                                              *)
callerVars == <<handedOut, awaiting>>

vars == <<text, opts, pc, err, segs, current, overlapBuffer, out,
          model, dimensions, chunks, blob, last, provider, handedOut, awaiting>>

-----------------------------------------------------------------------------
(* Bounds of the chunker's inputs. *)

MaxLen == 5

MaxChunkSize == 3

MaxOut == 6

(* Program constants. *)

DEFAULT_CHUNK_SIZE == 512

DEFAULT_CHUNK_OVERLAP == 50

SPLIT_WINDOW == 50

-----------------------------------------------------------------------------
(* Optional values and strings. *)

None == <<>>

Some(x) == <<x>>

OrDefault(o, d) == IF o = None THEN d ELSE o[1]

Min(a, b) == IF a <= b THEN a ELSE b

Max(a, b) == IF a >= b THEN a ELSE b

Whitespace == {" ", "\n"}

SentenceEnd == {".", "!", "?"}

Alphabet == {"a", " ", "\n", ".", "|"}

Texts == UNION {[1..n -> Alphabet] : n \in 0..MaxLen}

(* String.prototype.slice(a, b) for 0 <= a. *)
Slice(s, a, b) == SubSeq(s, a + 1, Min(b, Len(s)))

RECURSIVE TrimStart(_)
TrimStart(s) ==
  IF s # <<>> /\ s[1] \in Whitespace THEN TrimStart(Tail(s)) ELSE s

RECURSIVE TrimEnd(_)
TrimEnd(s) ==
  IF s # <<>> /\ s[Len(s)] \in Whitespace
    THEN TrimEnd(SubSeq(s, 1, Len(s) - 1))
    ELSE s

(* String.prototype.trim *)
Trim(s) == TrimEnd(TrimStart(s))

(* The number of consecutive characters of s from 1-based position i on    *)
(* that lie in the set cs.                                                 *)
RECURSIVE RunLen(_, _, _)
RunLen(s, i, cs) ==
  IF i <= Len(s) /\ s[i] \in cs THEN 1 + RunLen(s, i + 1, cs) ELSE 0

(* The three splitting patterns: the length of the pattern's match that    *)
(* starts at the 1-based position i of s, 0 when it does not match there.  *)
PARAGRAPH_SPLIT(s, i) ==
  IF s[i] = "\n" /\ i + 1 <= Len(s) /\ s[i + 1] = "\n"
    THEN RunLen(s, i, {"\n"})
    ELSE 0

SENTENCE_SPLIT(s, i) ==
  IF s[i] \in Whitespace /\ i > 1 /\ s[i - 1] \in SentenceEnd
    THEN RunLen(s, i, Whitespace)
    ELSE 0

WORD_SPLIT(s, i) ==
  IF s[i] \in Whitespace THEN RunLen(s, i, Whitespace) ELSE 0

MatchLen(pat, s, i) ==
  CASE pat = "PARAGRAPH_SPLIT" -> PARAGRAPH_SPLIT(s, i)
    [] pat = "SENTENCE_SPLIT" -> SENTENCE_SPLIT(s, i)
    [] pat = "WORD_SPLIT" -> WORD_SPLIT(s, i)

(* String.prototype.split(pattern) for one of the three patterns.  cur     *)
(* holds the characters since the last match.                              *)
RECURSIVE SplitPatternFrom(_, _, _, _)
SplitPatternFrom(pat, s, i, cur) ==
  IF i > Len(s)
    THEN <<cur>>
    ELSE LET n == MatchLen(pat, s, i)
         IN IF n > 0
              THEN <<cur>> \o SplitPatternFrom(pat, s, i + n, <<>>)
              ELSE SplitPatternFrom(pat, s, i + 1, Append(cur, s[i]))

SplitPattern(s, pat) == SplitPatternFrom(pat, s, 1, <<>>)

(* String.prototype.split(separator) for a non-empty literal string. *)
RECURSIVE SplitLiteralFrom(_, _, _, _)
SplitLiteralFrom(sep, s, i, cur) ==
  IF i > Len(s)
    THEN <<cur>>
    ELSE IF SubSeq(s, i, i + Len(sep) - 1) = sep
           THEN <<cur>> \o SplitLiteralFrom(sep, s, i + Len(sep), <<>>)
           ELSE SplitLiteralFrom(sep, s, i + 1, Append(cur, s[i]))

SplitLiteral(s, sep) == SplitLiteralFrom(sep, s, 1, <<>>)

(* A filter that keeps the blank strings and drops the empty ones. *)
FilterNonEmpty(ss) == SelectSeq(ss, LAMBDA s : s # <<>>)

(* Array.prototype.filter(s => s.trim()) *)
FilterNonBlank(ss) == SelectSeq(ss, LAMBDA s : Trim(s) # <<>>)

MapTrim(ss) == [i \in 1..Len(ss) |-> Trim(ss[i])]

RECURSIVE Flatten(_)
Flatten(sss) == IF sss = <<>> THEN <<>> ELSE Head(sss) \o Flatten(Tail(sss))

-----------------------------------------------------------------------------
(* The chunker's helpers. *)

(* The slices one character short: word.slice(i, i + maxSize - 1). *)
RECURSIVE SliceEveryShort(_, _)
SliceEveryShort(word, maxSize) ==
  IF word = <<>>
    THEN <<>>
    ELSE <<Slice(word, 0, Max(maxSize - 1, 1))>>
           \o SliceEveryShort(Slice(word, maxSize, Len(word)), maxSize)

(* word.slice(i, i + maxSize) for i = 0, maxSize, 2 * maxSize, ... *)
RECURSIVE SliceEvery(_, _)
SliceEvery(word, maxSize) ==
  IF word = <<>>
    THEN <<>>
    ELSE <<Slice(word, 0, maxSize)>>
           \o SliceEvery(Slice(word, maxSize, Len(word)), maxSize)

(* One pass of the loop of splitByWords over words[i..], with the chunks   *)
(* pushed so far and the running buffer cur.                               *)
RECURSIVE WordLoop(_, _, _, _, _)
WordLoop(words, i, maxSize, pushed, cur) ==
  IF i > Len(words)
    THEN IF Trim(cur) # <<>> THEN Append(pushed, Trim(cur)) ELSE pushed
    ELSE LET word == words[i]
             candidate == IF cur # <<>> THEN cur \o <<" ">> \o word ELSE word
             flushed == IF cur # <<>> THEN Append(pushed, Trim(cur)) ELSE pushed
         IN IF Len(word) > maxSize
              THEN WordLoop(words, i + 1, maxSize,
                            flushed \o SliceEvery(word, maxSize), <<>>)
              ELSE IF Len(candidate) <= maxSize
                     THEN WordLoop(words, i + 1, maxSize, pushed, candidate)
                     ELSE WordLoop(words, i + 1, maxSize, flushed, word)

splitByWords(txt, maxSize) ==
  WordLoop(SplitPattern(txt, "WORD_SPLIT"), 1, maxSize, <<>>, <<>>)

(* The sentences with a long one cut at maxSize and its rest dropped. *)
SentencesOfTruncated(segment, maxSize) ==
  LET sentences == FilterNonBlank(SplitPattern(segment, "SENTENCE_SPLIT"))
  IN [i \in 1..Len(sentences) |-> Slice(sentences[i], 0, maxSize)]

SentencesOf(segment, maxSize) ==
  LET sentences == FilterNonBlank(SplitPattern(segment, "SENTENCE_SPLIT"))
  IN Flatten([i \in 1..Len(sentences) |->
               IF Len(sentences[i]) <= maxSize
                 THEN <<sentences[i]>>
                 ELSE splitByWords(sentences[i], maxSize)])

splitByBoundary(txt, maxSize) ==
  LET paragraphs == FilterNonBlank(SplitPattern(txt, "PARAGRAPH_SPLIT"))
      needsSentenceSplit ==
        \E i \in 1..Len(paragraphs) : Len(paragraphs[i]) > maxSize
  IN IF needsSentenceSplit
       THEN Flatten([i \in 1..Len(paragraphs) |->
                      IF Len(paragraphs[i]) <= maxSize
                        THEN <<paragraphs[i]>>
                        ELSE SentencesOf(paragraphs[i], maxSize)])
       ELSE paragraphs

(* The 0-based index of the first whitespace character after the first     *)
(* character of s, -1 when there is none.                                  *)
SearchInnerWhitespace(s) ==
  IF \E i \in 2..Len(s) : s[i] \in Whitespace
    THEN (CHOOSE i \in 2..Len(s) :
            /\ s[i] \in Whitespace
            /\ \A j \in 2..(i - 1) : s[j] \notin Whitespace) - 1
    ELSE -1

(* String.prototype.search(/\s/): the 0-based index of the first           *)
(* whitespace character, -1 when there is none.                            *)
SearchWhitespace(s) ==
  IF \E i \in 1..Len(s) : s[i] \in Whitespace
    THEN (CHOOSE i \in 1..Len(s) :
            /\ s[i] \in Whitespace
            /\ \A j \in 1..(i - 1) : s[j] \notin Whitespace) - 1
    ELSE -1

getOverlapText(txt, overlap) ==
  IF overlap <= 0 \/ Len(txt) <= overlap
    THEN <<>>
    ELSE LET slice == Slice(txt, Len(txt) - overlap, Len(txt))
             wordBoundary == SearchWhitespace(slice)
         IN IF wordBoundary > 0 /\ wordBoundary < Len(slice) - 1
              THEN Slice(slice, wordBoundary + 1, Len(slice))
              ELSE slice

(* searchRegion.match(/[.!?]\s+/): the 1-based positions in region where   *)
(* a sentence end followed by whitespace starts.                           *)
SentenceMatches(region) ==
  {i \in 1..(Len(region) - 1) :
     region[i] \in SentenceEnd /\ region[i + 1] \in Whitespace}

(* String.prototype.lastIndexOf(" ", from): 0-based, -1 when absent. *)
LastIndexOfSpace(s, from) ==
  LET hits == {j \in 0..Min(from, Len(s) - 1) : s[j + 1] = " "}
  IN IF hits = {} THEN -1 ELSE CHOOSE j \in hits : \A k \in hits : k <= j

findSplitPoint(txt, target) ==
  IF Len(txt) <= target
    THEN Len(txt)
    ELSE LET searchStart == Max(0, target - SPLIT_WINDOW)
             searchEnd == Min(Len(txt), target + SPLIT_WINDOW)
             searchRegion == Slice(txt, searchStart, searchEnd)
             matches == SentenceMatches(searchRegion)
             first == CHOOSE i \in matches : \A j \in matches : i <= j
             lastSpace == LastIndexOfSpace(txt, target)
         IN IF matches # {}
              THEN searchStart + (first - 1)
                     + 1 + RunLen(searchRegion, first + 1, Whitespace)
              ELSE IF 2 * lastSpace > target
                     THEN lastSpace + 1
                     ELSE target

-----------------------------------------------------------------------------
(* chunkText(text, options).  text and opts are the call's arguments; pc   *)
(* is the call's position: "start" before the call, "merge" in the for     *)
(* loop of mergeSegments, "split" in its while loop, "done" after the      *)
(* return (out is then the returned array) and "error" after a throw (err  *)
(* is then the message).  segs holds the segments the for loop has not     *)
(* reached yet and out the chunks pushed so far.                           *)

chunkSize == OrDefault(opts.chunkSize, DEFAULT_CHUNK_SIZE)

chunkOverlap == OrDefault(opts.chunkOverlap, DEFAULT_CHUNK_OVERLAP)

separator == opts.separator

(* The checks with the last one letting chunkOverlap = chunkSize through. *)
ValidateOptionsStrict(size, overlap) ==
  IF size <= 0 THEN "chunkSize must be positive"
  ELSE IF overlap < 0 THEN "chunkOverlap cannot be negative"
  ELSE IF overlap > size THEN "chunkOverlap must be less than chunkSize"
  ELSE "ok"

(* The three checks of the options, in the code's order. *)
ValidateOptions(size, overlap) ==
  IF size <= 0 THEN "chunkSize must be positive"
  ELSE IF overlap < 0 THEN "chunkOverlap cannot be negative"
  ELSE IF overlap >= size THEN "chunkOverlap must be less than chunkSize"
  ELSE "ok"

(* The text returned as it came, untrimmed. *)
SingleChunkRaw(txt) == IF Trim(txt) # <<>> THEN <<txt>> ELSE <<>>

(* return text.trim() ? [text.trim()] : [] *)
SingleChunk(txt) == IF Trim(txt) # <<>> THEN <<Trim(txt)>> ELSE <<>>

AllFit(segments, size) == \A i \in 1..Len(segments) : Len(segments[i]) <= size

Return(fragments) ==
  /\ pc' = "done"
  /\ out' = fragments
  /\ UNCHANGED <<err, segs, current, overlapBuffer>>

EnterMerge(segments) ==
  /\ pc' = "merge"
  /\ segs' = segments
  /\ current' = <<>>
  /\ overlapBuffer' = <<>>
  /\ out' = <<>>
  /\ UNCHANGED err

ChunkText ==
  /\ pc = "start"
  /\ UNCHANGED <<text, opts, storeVars, provider, callerVars>>
  /\ IF ValidateOptions(chunkSize, chunkOverlap) # "ok"
       THEN /\ pc' = "error"
            /\ err' = ValidateOptions(chunkSize, chunkOverlap)
            /\ UNCHANGED <<segs, current, overlapBuffer, out>>
       ELSE IF separator # <<>>
         THEN LET segments == FilterNonBlank(SplitLiteral(text, separator))
              IN IF AllFit(segments, chunkSize)
                   THEN Return(MapTrim(segments))
                   ELSE EnterMerge(segments)
         ELSE IF Len(text) <= chunkSize
                THEN Return(SingleChunk(text))
                ELSE EnterMerge(splitByBoundary(text, chunkSize))

(* One iteration of the for loop of mergeSegments, up to its while loop. *)
MergeSegment ==
  /\ pc = "merge"
  /\ segs # <<>>
  /\ LET segment == Head(segs)
         candidate == current \o (IF current # <<>> THEN <<"\n", "\n">> ELSE <<>>)
                        \o segment
         newOverlap == IF current # <<>> /\ chunkOverlap > 0
                         THEN getOverlapText(current, chunkOverlap)
                         ELSE overlapBuffer
         started == IF newOverlap # <<>>
                         /\ Len(segment) + Len(newOverlap) + 1 <= chunkSize
                      THEN newOverlap \o <<" ">> \o segment
                      ELSE segment
     IN /\ segs' = Tail(segs)
        /\ IF Len(candidate) <= chunkSize
             THEN /\ current' = candidate
                  /\ UNCHANGED <<pc, out, overlapBuffer>>
             ELSE /\ out' = IF current # <<>>
                              THEN Append(out, Trim(current))
                              ELSE out
                  /\ overlapBuffer' = newOverlap
                  /\ current' = started
                  /\ pc' = IF Len(started) > chunkSize THEN "split" ELSE "merge"
  /\ UNCHANGED <<text, opts, err, storeVars, provider, callerVars>>

(* One iteration of the while loop of mergeSegments. *)
HardSplit ==
  /\ pc = "split"
  /\ Len(out) < MaxOut
  /\ LET splitPoint == findSplitPoint(current, chunkSize)
         piece == Slice(current, 0, splitPoint)
         tail == getOverlapText(piece, chunkOverlap)
         remaining == Trim(Slice(current, splitPoint, Len(current)))
         next == IF tail # <<>> THEN tail \o <<" ">> \o remaining ELSE remaining
     IN /\ out' = Append(out, Trim(piece))
        /\ overlapBuffer' = tail
        /\ current' = next
        /\ pc' = IF Len(next) > chunkSize THEN "split" ELSE "merge"
  /\ UNCHANGED <<text, opts, err, segs, storeVars, provider, callerVars>>

(* The end of mergeSegments: the trailing chunk, and the return. *)
MergeReturn ==
  /\ pc = "merge"
  /\ segs = <<>>
  /\ pc' = "done"
  /\ out' = IF Trim(current) # <<>> THEN Append(out, Trim(current)) ELSE out
  /\ UNCHANGED <<text, opts, err, segs, current, overlapBuffer, storeVars,
                 provider, callerVars>>

(* getOverlapText(text, chunkOverlap) alone, on a chunk that mergeSegments  *)
(* has finalized: pc is "overlap" before the call and "tail" after it,     *)
(* when overlapBuffer is the value returned.                               *)
GetOverlapText ==
  /\ pc = "overlap"
  /\ pc' = "tail"
  /\ overlapBuffer' = getOverlapText(text, chunkOverlap)
  /\ UNCHANGED <<text, opts, err, segs, current, out, storeVars, provider, callerVars>>

ChunkSizes == {None} \cup {Some(n) : n \in -1..MaxChunkSize}
                \cup {Some(DEFAULT_CHUNK_OVERLAP + 1)}

ChunkOverlaps == {None} \cup {Some(n) : n \in -1..MaxChunkSize}

Separators == {<<>>, <<"|">>}

-----------------------------------------------------------------------------
(* JavaScript numbers.  A finite number is modelled by the integer it      *)
(* equals (every integer below 2^53 is a double); NaN, negative zero and   *)
(* JSON's null are values of their own.                                    *)

Num(n) == [k |-> "finite", v |-> n]

NaN == [k |-> "NaN", v |-> 0]

NegZero == [k |-> "-0", v |-> 0]

Null == [k |-> "null", v |-> 0]

(* What a typed-array read yields for bytes no float was written to. *)
Garbage == [k |-> "garbage", v |-> 0]

Abs(n) == IF n < 0 THEN 0 - n ELSE n

(* Math.fround on the integers up to 2^25: below 2^24 every integer is a   *)
(* 32-bit float, above it only the even ones, and an odd one rounds to the *)
(* neighbour whose significand is even.                                    *)
FroundInt(n) ==
  IF Abs(n) <= 16777216 \/ n % 2 = 0
    THEN n
    ELSE IF ((n - 1) \div 2) % 2 = 0 THEN n - 1 ELSE n + 1

(* The store of a value into a Float32Array element, and its read back:   *)
(* null is converted to the number 0.                                      *)
ToFloat32(x) ==
  CASE x.k = "finite" -> Num(FroundInt(x.v))
    [] x.k = "null" -> Num(0)
    [] OTHER -> x

(* JSON.stringify of a number followed by JSON.parse. *)
JsonNumber(x) ==
  CASE x.k = "finite" -> x
    [] x.k = "-0" -> Num(0)
    [] OTHER -> Null

(* The values of a metadata property: strings and numbers. *)
Str(cs) == [k |-> "string", v |-> 0, s |-> cs]

MetaNaN == [k |-> "NaN", v |-> 0, s |-> <<>>]

MetaNull == [k |-> "null", v |-> 0, s |-> <<>>]

JsonMetaValue(x) == IF x.k \in {"string", "finite", "null"} THEN x ELSE MetaNull

(* A metadata object holds one property; metadata itself is optional. *)
JsonMetadata(m) ==
  IF m = None THEN None ELSE Some([key |-> m[1].key, val |-> JsonMetaValue(m[1].val)])

-----------------------------------------------------------------------------
(* The length of JSON.stringify's text, in UTF-16 units and (the model's   *)
(* characters being ASCII) in UTF-8 bytes.                                 *)

RECURSIVE DigitCount(_)
DigitCount(n) == IF n < 10 THEN 1 ELSE 1 + DigitCount(n \div 10)

JsonNumberLen(x) ==
  IF x.k = "finite"
    THEN (IF x.v < 0 THEN 1 ELSE 0) + DigitCount(Abs(x.v))
    ELSE 4

Escaped == {"\"", "\\", "\n"}

RECURSIVE JsonStringLen(_)
JsonStringLen(cs) ==
  IF cs = <<>>
    THEN 2
    ELSE (IF Head(cs) \in Escaped THEN 2 ELSE 1) + JsonStringLen(Tail(cs))

JsonMetaValueLen(x) ==
  IF x.k = "string" THEN JsonStringLen(x.s) ELSE JsonNumberLen(x)

(* {"key":value} *)
JsonMetadataLen(m) == 1 + JsonStringLen(m.key) + 1 + JsonMetaValueLen(m.val) + 1

RECURSIVE SumLen(_, _, _)
SumLen(f, i, n) == IF i > n THEN 0 ELSE f[i] + SumLen(f, i + 1, n)

(* {"id":...,"content":...,"metadata":...} *)
JsonChunkMetaLen(c) ==
  6 + JsonStringLen(c.id) + 11 + JsonStringLen(c.content)
    + (IF "metadata" \in DOMAIN c THEN 12 + JsonMetadataLen(c.metadata) ELSE 0)
    + 1

(* {"version":...,"model":...,"dimensions":...,"chunkMeta":[...]} *)
JsonMetaLen(doc) ==
  LET n == Len(doc.chunkMeta)
      each == [i \in 1..n |-> JsonChunkMetaLen(doc.chunkMeta[i])]
  IN 11 + JsonNumberLen(Num(doc.version)) + 9 + JsonStringLen(doc.model)
       + 14 + JsonNumberLen(Num(doc.dimensions)) + 14
       + SumLen(each, 1, n) + (IF n > 0 THEN n - 1 ELSE 0) + 2

-----------------------------------------------------------------------------
(* VectorStore.  model, dimensions and chunks are the fields of the store  *)
(* under observation; a load (fromSerialized, fromJSON, fromBinary) that   *)
(* returns replaces it by the store it built.  A chunk is a record         *)
(* [id, content, metadata, embedding].                                     *)

INDEX_VERSION == 1

MAGIC == 1380009811

HEADER_SIZE == 16

DimensionMismatch == "Embedding dimension mismatch"

UnsupportedVersion == "Unsupported index version"

InvalidFormat == "Invalid binary index format"

(* A check that accepts every length. *)
validateDimensionsNever(embedding, dims) == "ok"

validateDimensions(embedding, dims) ==
  IF Len(embedding) # dims THEN DimensionMismatch ELSE "ok"

(* add that pushes the chunk before it validates it. *)
addThenValidate(cs, dims, chunk) ==
  [error |-> validateDimensions(chunk.embedding, dims),
   chunks |-> Append(cs, chunk)]

(* add on the chunk array cs of a store of dims dimensions: the error      *)
(* thrown ("ok" when none) and the array after the call.                   *)
add(cs, dims, chunk) ==
  IF validateDimensions(chunk.embedding, dims) # "ok"
    THEN [error |-> validateDimensions(chunk.embedding, dims), chunks |-> cs]
    ELSE [error |-> "ok", chunks |-> Append(cs, chunk)]

(* addAll: add, chunk after chunk, until one throws. *)
RECURSIVE addAll(_, _, _)
addAll(cs, dims, batch) ==
  IF batch = <<>>
    THEN [error |-> "ok", chunks |-> cs]
    ELSE LET first == add(cs, dims, Head(batch))
         IN IF first.error # "ok"
              THEN first
              ELSE addAll(first.chunks, dims, Tail(batch))

(* The index of the last record with the id, where the first is meant. *)
findLastIndex(cs, id) ==
  IF \E i \in 1..Len(cs) : cs[i].id = id
    THEN CHOOSE i \in 1..Len(cs) :
           cs[i].id = id /\ \A j \in (i + 1)..Len(cs) : cs[j].id # id
    ELSE 0

(* chunks.findIndex(c => c.id === id), 1-based; 0 when absent. *)
findIndex(cs, id) ==
  IF \E i \in 1..Len(cs) : cs[i].id = id
    THEN CHOOSE i \in 1..Len(cs) :
           cs[i].id = id /\ \A j \in 1..(i - 1) : cs[j].id # id
    ELSE 0

(* chunks.splice(index, 1) *)
splice(cs, index) == SubSeq(cs, 1, index - 1) \o SubSeq(cs, index + 1, Len(cs))

remove(cs, id) ==
  IF findIndex(cs, id) = 0
    THEN [result |-> FALSE, chunks |-> cs]
    ELSE [result |-> TRUE, chunks |-> splice(cs, findIndex(cs, id))]

(* chunks.find(c => c.id === id): the chunk found, none when undefined. *)
get(cs, id) == IF findIndex(cs, id) = 0 THEN None ELSE Some(cs[findIndex(cs, id)])

(* chunks.some(c => c.id === id) *)
has(cs, id) == \E i \in 1..Len(cs) : cs[i].id = id

serialize(m, dims, cs) ==
  [version |-> INDEX_VERSION, model |-> m, dimensions |-> dims, chunks |-> cs]

(* JSON.stringify of a chunk: a property whose value is undefined is left  *)
(* out, and numbers are written as JsonNumber tells.                       *)
JsonChunk(c) ==
  LET base == [id |-> c.id, content |-> c.content,
               embedding |-> [i \in 1..Len(c.embedding) |->
                                JsonNumber(c.embedding[i])]]
  IN IF c.metadata = None
       THEN base
       ELSE [id |-> base.id, content |-> base.content,
             embedding |-> base.embedding,
             metadata |-> JsonMetadata(c.metadata)[1]]

JsonChunkMeta(c) ==
  IF c.metadata = None
    THEN [id |-> c.id, content |-> c.content]
    ELSE [id |-> c.id, content |-> c.content,
          metadata |-> JsonMetadata(c.metadata)[1]]

(* The read of chunk.metadata from a parsed object. *)
MetadataOf(o) == IF "metadata" \in DOMAIN o THEN Some(o.metadata) ELSE None

toJSON(m, dims, cs) ==
  LET data == serialize(m, dims, cs)
  IN [version |-> data.version, model |-> data.model,
      dimensions |-> data.dimensions,
      chunks |-> [i \in 1..Len(data.chunks) |-> JsonChunk(data.chunks[i])]]

(* JSON.parse(json) as SerializedIndex *)
JsonParse(json) ==
  [version |-> json.version, model |-> json.model,
   dimensions |-> json.dimensions,
   chunks |-> [i \in 1..Len(json.chunks) |->
                [id |-> json.chunks[i].id, content |-> json.chunks[i].content,
                 metadata |-> MetadataOf(json.chunks[i]),
                 embedding |-> json.chunks[i].embedding]]]

(* The error thrown ("ok" when none) and the store returned. *)
Loaded(e, m, dims, cs) ==
  [error |-> e, model |-> m, dimensions |-> dims, chunks |-> cs]

fromSerialized(data) ==
  IF data.version # INDEX_VERSION
    THEN Loaded(UnsupportedVersion, <<>>, 0, <<>>)
    ELSE LET filled == addAll(<<>>, data.dimensions, data.chunks)
         IN Loaded(filled.error, data.model, data.dimensions, filled.chunks)

fromJSON(json) == fromSerialized(JsonParse(json))

-----------------------------------------------------------------------------
(* The binary format.  An ArrayBuffer is modelled by its layout: its byte  *)
(* length, the four header words, the bytes of the JSON text (jsonBytes of *)
(* them, from offset jsonAt) and the floats written (from offset floatsAt, *)
(* four bytes each); every other byte is zero.                             *)

SyntaxError == "Unexpected token in JSON"

RangeError == "Invalid typed array length"

TypeError == "Cannot read properties of undefined"

(* A padding of 1 to 4 bytes: a whole word where none is needed. *)
toBinaryPaddingUp(unalignedOffset) == 4 - (unalignedOffset % 4)

toBinaryPadding(unalignedOffset) == (4 - (unalignedOffset % 4)) % 4

(* The padding without its outer modulo: 4 where 0 is meant. *)
fromBinaryPaddingNoMod(unalignedOffset) == 4 - (unalignedOffset % 4)

fromBinaryPadding(unalignedOffset) == (4 - (unalignedOffset % 4)) % 4

toBinary(m, dims, cs) ==
  LET serialized == serialize(m, dims, cs)
      json == [version |-> serialized.version, model |-> serialized.model,
               dimensions |-> serialized.dimensions,
               chunkMeta |-> [i \in 1..Len(serialized.chunks) |->
                                JsonChunkMeta(serialized.chunks[i])]]
      jsonBytes == JsonMetaLen(json)
      unalignedOffset == HEADER_SIZE + jsonBytes
      padding == toBinaryPadding(unalignedOffset)
      vectorOffset == unalignedOffset + padding
      vectorsSize == Len(cs) * dims * 4
      totalSize == vectorOffset + vectorsSize
  IN [byteLength |-> totalSize,
      magic |-> MAGIC, version |-> INDEX_VERSION,
      jsonLength |-> jsonBytes, chunkCount |-> Len(cs),
      json |-> json, jsonAt |-> HEADER_SIZE, jsonBytes |-> jsonBytes,
      zeros |-> [i \in 1..padding |-> 0],
      floats |-> Flatten([i \in 1..Len(cs) |->
                           [j \in 1..Len(cs[i].embedding) |->
                              ToFloat32(cs[i].embedding[j])]]),
      floatsAt |-> vectorOffset]

(* The element a Float32Array view reads at byte offset off. *)
FloatAt(buffer, off) ==
  IF /\ off >= buffer.floatsAt
     /\ (off - buffer.floatsAt) % 4 = 0
     /\ (off - buffer.floatsAt) \div 4 < Len(buffer.floats)
    THEN buffer.floats[(off - buffer.floatsAt) \div 4 + 1]
    ELSE Garbage

(* The header checked with the version before the magic. *)
HeaderErrorVersionFirst(buffer) ==
  IF buffer.version # INDEX_VERSION THEN UnsupportedVersion
  ELSE IF buffer.magic # MAGIC THEN InvalidFormat
  ELSE "ok"

(* The two checks of the header, in the code's order: the error thrown,    *)
(* "ok" when none.                                                         *)
HeaderError(buffer) ==
  IF buffer.magic # MAGIC THEN InvalidFormat
  ELSE IF buffer.version # INDEX_VERSION THEN UnsupportedVersion
  ELSE "ok"

fromBinary(buffer) ==
  IF HeaderError(buffer) # "ok"
    THEN Loaded(HeaderError(buffer), <<>>, 0, <<>>)
  ELSE IF buffer.jsonAt # HEADER_SIZE \/ buffer.jsonLength # buffer.jsonBytes
    THEN Loaded(SyntaxError, <<>>, 0, <<>>)
  ELSE
    LET jsonLength == buffer.jsonLength
        chunkCount == buffer.chunkCount
        meta == buffer.json
        unalignedOffset == HEADER_SIZE + jsonLength
        padding == fromBinaryPadding(unalignedOffset)
        vectorOffset == unalignedOffset + padding
        loaded == [i \in 1..Min(chunkCount, Len(meta.chunkMeta)) |->
                     [id |-> meta.chunkMeta[i].id,
                      content |-> meta.chunkMeta[i].content,
                      metadata |-> MetadataOf(meta.chunkMeta[i]),
                      embedding |-> [j \in 1..meta.dimensions |->
                         FloatAt(buffer,
                           vectorOffset + 4 * ((i - 1) * meta.dimensions + j - 1))]]]
        filled == addAll(<<>>, meta.dimensions, loaded)
    IN IF vectorOffset + 4 * chunkCount * meta.dimensions > buffer.byteLength
         THEN Loaded(RangeError, <<>>, 0, <<>>)
       ELSE IF chunkCount > Len(meta.chunkMeta)
         THEN Loaded(TypeError, <<>>, 0, <<>>)
       ELSE Loaded(filled.error, meta.model, meta.dimensions, filled.chunks)

-----------------------------------------------------------------------------
(* Similarity search.  A score is a fraction num / den with den > 0, or    *)
(* NaN.  The vectors searched have integer components and integer norms,   *)
(* on which the code's floating-point arithmetic is exact up to the final  *)
(* division, whose correctly rounded quotients are ordered as the          *)
(* fractions are.                                                          *)

DEFAULT_TOP_K == 5

DEFAULT_THRESHOLD == 0

VectorMismatch == "Vector dimension mismatch"

Fraction(n, d) == [k |-> "finite", num |-> n, den |-> d]

NaNScore == [k |-> "NaN", num |-> 0, den |-> 1]

(* ToNumber of an array element in an arithmetic expression. *)
IsNumeric(x) == x.k \in {"finite", "-0", "null"}

RECURSIVE DotFrom(_, _, _)
DotFrom(a, b, i) ==
  IF i > Len(a) THEN 0 ELSE a[i].v * b[i].v + DotFrom(a, b, i + 1)

(* Math.sqrt, on the perfect squares. *)
Sqrt(n) == CHOOSE r \in 0..n : r * r = n

(* cosineSimilarity(a, b): the error thrown ("ok" when none) and the value *)
(* returned.                                                               *)
cosineSimilarity(a, b) ==
  IF Len(a) # Len(b)
    THEN [error |-> VectorMismatch, score |-> NaNScore]
    ELSE IF \E i \in 1..Len(a) : ~IsNumeric(a[i]) \/ ~IsNumeric(b[i])
      THEN [error |-> "ok", score |-> NaNScore]
      ELSE LET dotProduct == DotFrom(a, b, 1)
               normA == DotFrom(a, a, 1)
               normB == DotFrom(b, b, 1)
               magnitude == Sqrt(normA) * Sqrt(normB)
           IN IF magnitude = 0
                THEN [error |-> "ok", score |-> Fraction(0, 1)]
                ELSE [error |-> "ok", score |-> Fraction(dotProduct, magnitude)]

(* x >= y and x > y on scores; a comparison with NaN is false. *)
ScoreGE(x, y) ==
  x.k = "finite" /\ y.k = "finite" /\ x.num * y.den >= y.num * x.den

ScoreGT(x, y) ==
  x.k = "finite" /\ y.k = "finite" /\ x.num * y.den > y.num * x.den

(* The comparator of an ascending sort, (a, b) => a.score - b.score. *)
SortsAfterAscending(a, b) == ScoreGT(a.score, b.score)

(* The comparator (a, b) => b.score - a.score is positive: a sorts after b. *)
SortsAfter(a, b) == ScoreGT(b.score, a.score)

(* Array.prototype.sort, which is stable: r goes before the first element  *)
(* that the comparator puts after it.                                      *)
RECURSIVE InsertSorted(_, _)
InsertSorted(sorted, r) ==
  IF sorted = <<>>
    THEN <<r>>
    ELSE IF SortsAfter(Head(sorted), r)
           THEN <<r>> \o sorted
           ELSE <<Head(sorted)>> \o InsertSorted(Tail(sorted), r)

RECURSIVE SortFrom(_, _, _)
SortFrom(results, i, sorted) ==
  IF i > Len(results)
    THEN sorted
    ELSE SortFrom(results, i + 1, InsertSorted(sorted, results[i]))

sort(results) == SortFrom(results, 1, <<>>)

(* No truncation at all. *)
SliceToNone(arr, end) == arr

(* Array.prototype.slice(0, end) *)
SliceTo(arr, end) ==
  IF end < 0
    THEN SubSeq(arr, 1, Max(Len(arr) + end, 0))
    ELSE SubSeq(arr, 1, Min(end, Len(arr)))

(* A filter option is the predicate meta => meta?.type === wanted, given   *)
(* by the value it wants.                                                  *)
TypeKey == <<"t", "y", "p", "e">>

FilterAccepts(wanted, metadata) ==
  metadata # None /\ metadata[1].key = TypeKey /\ metadata[1].val = wanted

Scored(chunk, score) ==
  [chunk |-> [id |-> chunk.id, content |-> chunk.content,
              metadata |-> chunk.metadata],
   score |-> score]

(* The loop of search over cs[i..]: the results pushed. *)
RECURSIVE Matches(_, _, _, _, _)
Matches(cs, i, queryEmbedding, threshold, filter) ==
  IF i > Len(cs)
    THEN <<>>
    ELSE LET chunk == cs[i]
             score == cosineSimilarity(queryEmbedding, chunk.embedding).score
             rest == Matches(cs, i + 1, queryEmbedding, threshold, filter)
         IN IF filter # None /\ ~FilterAccepts(filter[1], chunk.metadata)
              THEN rest
              ELSE IF ScoreGE(score, threshold)
                     THEN <<Scored(chunk, score)>> \o rest
                     ELSE rest

(* search(queryEmbedding, options): the error thrown ("ok" when none) and  *)
(* the array returned.                                                     *)
search(cs, dims, queryEmbedding, options) ==
  LET topK == OrDefault(options.topK, DEFAULT_TOP_K)
      threshold == OrDefault(options.threshold, Fraction(DEFAULT_THRESHOLD, 1))
      filter == options.filter
  IN IF validateDimensions(queryEmbedding, dims) # "ok"
       THEN [error |-> validateDimensions(queryEmbedding, dims),
             results |-> <<>>]
       ELSE [error |-> "ok",
             results |-> SliceTo(sort(Matches(cs, 1, queryEmbedding,
                                              threshold, filter)), topK)]

-----------------------------------------------------------------------------
(* The calls on the store.  last records the latest call: its name, the    *)
(* error it threw ("ok" when none), the store before it, its argument and  *)
(* the value it returned.  blob is the value the latest toJSON or toBinary *)
(* returned, for the load that follows it.                                 *)

Snapshot == [model |-> model, dimensions |-> dimensions, chunks |-> chunks]

Call(op, error, arg, result) ==
  [op |-> op, error |-> error, pre |-> Snapshot, arg |-> arg, result |-> result]

NoBlob == [kind |-> "none"]

(* The SerializedIndex a caller holds.  Its chunks property refers to an   *)
(* array: the store's own one (shared), whose elements are then chunks,    *)
(* or an array that the store has let go of, with the elements it had and  *)
(* those the caller gave it since.                                         *)
SharedIndex == Some([shared |-> TRUE, chunks |-> <<>>])

Detached ==
  IF handedOut # None /\ handedOut[1].shared
    THEN Some([shared |-> FALSE, chunks |-> chunks])
    ELSE handedOut

(* serialized.chunks, read by the caller. *)
HandedOutChunks == IF handedOut[1].shared THEN chunks ELSE handedOut[1].chunks

Add(chunk, cap) ==
  /\ Len(chunks) < cap
  /\ chunks' = add(chunks, dimensions, chunk).chunks
  /\ last' = Call("add", add(chunks, dimensions, chunk).error, chunk, <<>>)
  /\ blob' = NoBlob
  /\ UNCHANGED <<model, dimensions, chunkerVars, provider, callerVars>>

AddAll(batch, cap) ==
  /\ Len(chunks) + Len(batch) <= cap
  /\ chunks' = addAll(chunks, dimensions, batch).chunks
  /\ last' = Call("addAll", addAll(chunks, dimensions, batch).error, batch, <<>>)
  /\ blob' = NoBlob
  /\ UNCHANGED <<model, dimensions, chunkerVars, provider, callerVars>>

Remove(id) ==
  /\ chunks' = remove(chunks, id).chunks
  /\ last' = Call("remove", "ok", id, remove(chunks, id).result)
  /\ blob' = NoBlob
  /\ UNCHANGED <<model, dimensions, chunkerVars, provider, callerVars>>

(* clear gives the store a new array: an index handed out keeps the old    *)
(* one.                                                                    *)
Clear ==
  /\ chunks' = <<>>
  /\ last' = Call("clear", "ok", <<>>, <<>>)
  /\ blob' = NoBlob
  /\ handedOut' = Detached
  /\ UNCHANGED <<model, dimensions, chunkerVars, provider, awaiting>>

Search(queryEmbedding, options) ==
  /\ LET found == search(chunks, dimensions, queryEmbedding, options)
     IN last' = Call("search", found.error,
                     [queryEmbedding |-> queryEmbedding, options |-> options],
                     found.results)
  /\ blob' = NoBlob
  /\ UNCHANGED <<model, dimensions, chunks, chunkerVars, provider, callerVars>>

CosineSimilarity(a, b) ==
  /\ last' = Call("cosineSimilarity", cosineSimilarity(a, b).error,
                  <<a, b>>, cosineSimilarity(a, b).score)
  /\ blob' = NoBlob
  /\ UNCHANGED <<model, dimensions, chunks, chunkerVars, provider, callerVars>>

ToJSON ==
  /\ blob' = [kind |-> "json", json |-> toJSON(model, dimensions, chunks)]
  /\ last' = Call("toJSON", "ok", <<>>, <<>>)
  /\ UNCHANGED <<model, dimensions, chunks, chunkerVars, provider, callerVars>>

ToBinary ==
  /\ blob' = [kind |-> "binary", buffer |-> toBinary(model, dimensions, chunks)]
  /\ last' = Call("toBinary", "ok", <<>>, <<>>)
  /\ UNCHANGED <<model, dimensions, chunks, chunkerVars, provider, callerVars>>

(* serialize(): the index handed out has the store's array as its chunks.  *)
Serialize ==
  /\ handedOut' = SharedIndex
  /\ last' = Call("serialize", "ok", <<>>, serialize(model, dimensions, chunks))
  /\ blob' = NoBlob
  /\ UNCHANGED <<model, dimensions, chunks, chunkerVars, provider, awaiting>>

(* The caller's serialized.chunks.push(chunk) and serialized.chunks.pop()  *)
(* on the index handed out.                                                *)
HandedOutPush(chunk, cap) ==
  /\ handedOut # None
  /\ Len(HandedOutChunks) < cap
  /\ IF handedOut[1].shared
       THEN chunks' = Append(chunks, chunk) /\ UNCHANGED handedOut
       ELSE /\ handedOut' = Some([handedOut[1] EXCEPT !.chunks = Append(@, chunk)])
            /\ UNCHANGED chunks
  /\ last' = Call("push", "ok", chunk, <<>>)
  /\ blob' = NoBlob
  /\ UNCHANGED <<model, dimensions, chunkerVars, provider, awaiting>>

HandedOutPop ==
  /\ handedOut # None
  /\ HandedOutChunks # <<>>
  /\ IF handedOut[1].shared
       THEN chunks' = SubSeq(chunks, 1, Len(chunks) - 1) /\ UNCHANGED handedOut
       ELSE /\ handedOut' = Some([handedOut[1] EXCEPT
                                   !.chunks = SubSeq(@, 1, Len(@) - 1)])
            /\ UNCHANGED chunks
  /\ last' = Call("pop", "ok", <<>>, <<>>)
  /\ blob' = NoBlob
  /\ UNCHANGED <<model, dimensions, chunkerVars, provider, awaiting>>

(* A load: the store it returns replaces the store under observation; a    *)
(* load that throws returns none.                                          *)
Load(op, loaded, arg) ==
  /\ last' = Call(op, loaded.error, arg, <<>>)
  /\ blob' = NoBlob
  /\ IF loaded.error = "ok"
       THEN /\ model' = loaded.model
            /\ dimensions' = loaded.dimensions
            /\ chunks' = loaded.chunks
            /\ handedOut' = Detached
       ELSE UNCHANGED <<model, dimensions, chunks, handedOut>>
  /\ UNCHANGED <<chunkerVars, provider, awaiting>>

FromSerialized(data) == Load("fromSerialized", fromSerialized(data), data)

FromJSON ==
  /\ blob.kind = "json"
  /\ Load("fromJSON", fromJSON(blob.json), blob.json)

FromBinary ==
  /\ blob.kind = "binary"
  /\ Load("fromBinary", fromBinary(blob.buffer), blob.buffer)

(* fromBinary on a buffer that a caller wrote: the buffer toBinary         *)
(* returned, with other words in its header; the record count, an          *)
(* unsigned word, is moved by chunkCount.                                  *)
FromBinaryBuffer(magic, version, chunkCount) ==
  /\ blob.kind = "binary"
  /\ blob.buffer.chunkCount + chunkCount >= 0
  /\ LET buffer == [blob.buffer EXCEPT !.magic = magic, !.version = version,
                                       !.chunkCount = @ + chunkCount]
     IN Load("fromBinary", fromBinary(buffer), buffer)

-----------------------------------------------------------------------------
(* The inputs. *)

MaxChunks == 2

MaxOverlap == 4

MaxEmbedTexts == 2

MaxRagChunks == 2

MaxSearchChunks == 6

MaxTopK == 2

Special == <<"s">>

Ids == {<<"a">>, <<"a", "b">>}

Metadatas ==
  {None, Some([key |-> TypeKey, val |-> Str(Special)]),
   Some([key |-> <<"w">>, val |-> MetaNaN])}

Components == {Num(1), Num(16777217), NaN, NegZero}

Vector(c, n) == [i \in 1..n |-> IF i = 1 THEN c ELSE Num(0)]

Chunk(id, metadata, embedding) ==
  [id |-> id, content |-> <<"x">>, metadata |-> metadata,
   embedding |-> embedding]

(* The chunks added: every component in a vector of two, every metadata,   *)
(* and vectors of one and of three components.                             *)
Chunks ==
  {Chunk(id, None, Vector(c, 2)) : id \in Ids, c \in Components}
    \cup {Chunk(<<"a">>, m, Vector(Num(1), 2)) : m \in Metadatas}
    \cup {Chunk(<<"a">>, None, Vector(Num(1), n)) : n \in {1, 3}}

BatchChunks == {Chunk(<<"a">>, None, Vector(Num(1), n)) : n \in 1..3}

Batches == {<<c1, c2>> : c1 \in BatchChunks, c2 \in BatchChunks}

SerializedInputs ==
  [version : {INDEX_VERSION}, model : {<<"k">>},
   dimensions : {1, 2}, chunks : Batches \cup {<<>>}]
    \cup {[version |-> INDEX_VERSION + 1, model |-> <<"k">>,
           dimensions |-> 2, chunks |-> <<>>]}

(* Header words: the magic, the magic read in the other byte order, zero;  *)
(* the version and its neighbours.                                         *)
Magics == {MAGIC, 1397178706, 0}

Versions == {INDEX_VERSION, INDEX_VERSION + 1, 0}

DigitChars == <<"0", "1", "2", "3", "4", "5", "6", "7", "8", "9">>

SearchId(n) == <<"c", DigitChars[n + 1]>>

(* The chunks searched: two directions, one of them of the special type,   *)
(* and a vector of the wrong length.                                       *)
SearchChunks(n) ==
  {Chunk(SearchId(n), None, <<Num(1), Num(0)>>),
   Chunk(SearchId(n), Some([key |-> TypeKey, val |-> Str(Special)]),
         <<Num(3), Num(4)>>),
   Chunk(SearchId(n), None, <<Num(1)>>)}

Queries ==
  {<<Num(1), Num(0)>>, <<Num(-3), Num(-4)>>, <<Num(0), Num(0)>>, <<Num(1)>>}

SearchOptions ==
  [topK : {None} \cup {Some(n) : n \in -1..MaxTopK},
   threshold : {None, Some(Fraction(3, 5)), Some(Fraction(4, 5)),
                Some(Fraction(-1, 1))},
   filter : {None, Some(Str(Special))}]

-----------------------------------------------------------------------------
(* MockEmbedding (src/src/embeddings.ts): the provider keeps the vector it *)
(* made for a text and makes a new one from the hash code of the text.     *)

(* String.prototype.charCodeAt on the characters of the model. *)
charCodeAt(c) ==
  CASE c = "\n" -> 10
    [] c = " " -> 32
    [] c = "." -> 46
    [] c = "A" -> 65
    [] c = "B" -> 66
    [] c = "a" -> 97
    [] c = "|" -> 124

(* One round of the loop of hashCode: ((hash << 5) - hash + code) | 0 is   *)
(* 31 * hash + code in 32 bits.  The 32 bits are kept as two halves of 16  *)
(* bits, <<high, low>>.                                                    *)
HashStep(hash, code) ==
  LET low == 31 * hash[2] + code
  IN <<(31 * hash[1] + low \div 65536) % 65536, low % 65536>>

RECURSIVE HashBits(_, _)
HashBits(str, i) ==
  IF i = 0 THEN <<0, 0>>
  ELSE HashStep(HashBits(str, i - 1), charCodeAt(str[i]))

(* The signed 32-bit integer with the bits <<high, low>>. *)
ToInt32(bits) ==
  IF bits[1] >= 32768 THEN (bits[1] - 65536) * 65536 + bits[2]
  ELSE bits[1] * 65536 + bits[2]

hashCode(str) == Abs(ToInt32(HashBits(str, Len(str))))

(* A generator whose seed also counts the vectors made so far. *)
generateVectorSalted(this, str) ==
  [i \in 1..this.dimensions |->
     [k |-> "mock", seed |-> hashCode(str) + Cardinality(DOMAIN this.vectors),
      i |-> i, of |-> this.dimensions]]

(* generateVector: component i is the i-th number that the generator       *)
(* seed' = (seed * 1103515245 + 12345) & 0x7fffffff gives from the seed    *)
(* hashCode(text), divided by the magnitude of all of them.  It is a       *)
(* function of the seed, of i and of the dimensions, and nothing else goes *)
(* into it: the component is the record of the three.                      *)
generateVector(this, str) ==
  [i \in 1..this.dimensions |->
     [k |-> "mock", seed |-> hashCode(str), i |-> i, of |-> this.dimensions]]

MockEmbedding(dims) ==
  [model |-> <<"m", "o", "c", "k">>, dimensions |-> dims, vectors |-> <<>>]

(* The callback of texts.map in embed, on the provider as the earlier      *)
(* texts left it: the stored vector, or a new one that is stored.          *)
EmbedText(this, str) ==
  IF str \in DOMAIN this.vectors
    THEN [this |-> this, vector |-> this.vectors[str]]
    ELSE LET vector == generateVector(this, str)
         IN [this |-> [this EXCEPT !.vectors =
                         [t \in DOMAIN this.vectors \cup {str} |->
                            IF t = str THEN vector ELSE this.vectors[t]]],
             vector |-> vector]

RECURSIVE embed(_, _)
embed(this, texts) ==
  IF texts = <<>> THEN [this |-> this, result |-> <<>>]
  ELSE LET n == Len(texts)
           before == embed(this, SubSeq(texts, 1, n - 1))
           one == EmbedText(before.this, texts[n])
       IN [this |-> one.this, result |-> Append(before.result, one.vector)]

Embed(texts) ==
  /\ provider' = embed(provider, texts).this
  /\ last' = [op |-> "embed", error |-> "ok", pre |-> provider,
              arg |-> texts, result |-> embed(provider, texts).result]
  /\ UNCHANGED <<model, dimensions, chunks, blob, chunkerVars, callerVars>>

(* The chunks added beside an index handed out: two ids, vectors of the    *)
(* right length and of a wrong one.                                        *)
AliasChunks ==
  {Chunk(<<"a">>, None, <<Num(1), Num(0)>>),
   Chunk(<<"a", "b">>, None, <<Num(1), Num(0)>>),
   Chunk(<<"a", "b">>, None, <<Num(1)>>)}

AliasBatches == {<<a, b>> : a \in AliasChunks, b \in AliasChunks}

(* The texts embedded: "Aa" and "BB" have one hash code, 2112. *)
EmbedTexts == {<<>>, <<"a">>, <<"A", "a">>, <<"B", "B">>, <<"a", "A">>}

-----------------------------------------------------------------------------
(* createChunks and the documents of RAG (src/src/rag.ts).  The metadata   *)
(* object of a created chunk is the function from its keys to its values.  *)
(* A RAG holds its provider, its store and its chunkOptions, which are     *)
(* opts from the constructor on; its field initialized is written and      *)
(* never read.  The calls are made one after the other, each awaited.      *)

(* `${index}` *)
RECURSIVE NumberToString(_)
NumberToString(n) ==
  IF n < 10 THEN <<DigitChars[n + 1]>>
  ELSE NumberToString(n \div 10) \o <<DigitChars[(n % 10) + 1]>>

EmptyObject == [key \in {} |-> Null]

(* {...metadata}: the keys of metadata, none of them when it is undefined. *)
Spread(metadata) == IF metadata = None THEN EmptyObject ELSE metadata[1]

(* The caller's keys written after the two of the chunker. *)
ChunkMetadataSpreadLast(metadata, index, total) ==
  [key \in DOMAIN Spread(metadata) \cup {"chunkIndex", "totalChunks"} |->
     IF key \in DOMAIN Spread(metadata) THEN Spread(metadata)[key]
     ELSE IF key = "chunkIndex" THEN Num(index) ELSE Num(total)]

(* {...metadata, chunkIndex: index, totalChunks: texts.length} *)
ChunkMetadata(metadata, index, total) ==
  [key \in DOMAIN Spread(metadata) \cup {"chunkIndex", "totalChunks"} |->
     IF key = "chunkIndex" THEN Num(index)
     ELSE IF key = "totalChunks" THEN Num(total)
     ELSE Spread(metadata)[key]]

(* The map of createChunks over texts, the fragments chunkText returned. *)
createChunks(texts, baseId, metadata) ==
  [i \in 1..Len(texts) |->
     [id |-> baseId \o <<"-">> \o NumberToString(i - 1),
      content |-> texts[i],
      metadata |-> ChunkMetadata(metadata, i - 1, Len(texts))]]

(* String.prototype.startsWith *)
startsWith(str, prefix) ==
  Len(str) >= Len(prefix) /\ SubSeq(str, 1, Len(prefix)) = prefix

(* The first loop of removeDocument: the ids that start with documentId-. *)
RECURSIVE ToRemove(_, _)
ToRemove(cs, documentId) ==
  IF cs = <<>> THEN <<>>
  ELSE (IF startsWith(Head(cs).id, documentId \o <<"-">>)
          THEN <<Head(cs).id>> ELSE <<>>)
       \o ToRemove(Tail(cs), documentId)

(* The second loop: store.remove(id), id after id, counting the removals. *)
RECURSIVE RemoveEach(_, _, _)
RemoveEach(cs, toRemove, removed) ==
  IF toRemove = <<>> THEN [result |-> removed, chunks |-> cs]
  ELSE RemoveEach(remove(cs, Head(toRemove)).chunks, Tail(toRemove),
                  IF remove(cs, Head(toRemove)).result THEN removed + 1
                  ELSE removed)

removeDocument(cs, documentId) == RemoveEach(cs, ToRemove(cs, documentId), 0)

(* addDocument, up to its call of chunkText. *)
AddDocument(doc, cap) ==
  /\ pc = "idle"
  /\ Len(chunks) < cap
  /\ pc' = "start"
  /\ text' = doc.content
  /\ err' = ""
  /\ segs' = <<>>
  /\ current' = <<>>
  /\ overlapBuffer' = <<>>
  /\ out' = <<>>
  /\ last' = Call("addDocument", "pending", doc, <<>>)
  /\ blob' = NoBlob
  /\ UNCHANGED <<opts, model, dimensions, chunks, provider, callerVars>>

(* addDocument from the return of chunkText on: the map of createChunks,   *)
(* then addChunks, which returns at once for no chunks and else embeds the *)
(* contents and hands the embedded chunks to addAll.                       *)
AddChunks ==
  /\ pc = "done"
  /\ last.op = "addDocument"
  /\ LET created == createChunks(out, last.arg.id, last.arg.metadata)
         embedded == embed(provider, [i \in 1..Len(created) |-> created[i].content])
         embeddedChunks ==
           [i \in 1..Len(created) |->
              [id |-> created[i].id, content |-> created[i].content,
               metadata |-> created[i].metadata,
               embedding |-> embedded.result[i]]]
         added == addAll(chunks, dimensions, embeddedChunks)
     IN IF created = <<>>
          THEN /\ last' = [last EXCEPT !.error = "ok", !.result = created]
               /\ UNCHANGED <<chunks, provider, callerVars>>
          ELSE /\ provider' = embedded.this
               /\ chunks' = added.chunks
               /\ last' = [last EXCEPT !.error = added.error, !.result = created]
  /\ pc' = "idle"
  /\ segs' = <<>>
  /\ current' = <<>>
  /\ overlapBuffer' = <<>>
  /\ UNCHANGED <<text, opts, err, out, model, dimensions, blob, callerVars>>

(* addDocument when chunkText throws. *)
AddDocumentThrow ==
  /\ pc = "error"
  /\ last.op = "addDocument"
  /\ pc' = "idle"
  /\ last' = [last EXCEPT !.error = err]
  /\ UNCHANGED <<text, opts, err, segs, current, overlapBuffer, out,
                 model, dimensions, chunks, blob, provider, callerVars>>

RemoveDocument(documentId) ==
  /\ pc = "idle"
  /\ chunks' = removeDocument(chunks, documentId).chunks
  /\ last' = Call("removeDocument", "ok", documentId,
                  removeDocument(chunks, documentId).result)
  /\ blob' = NoBlob
  /\ UNCHANGED <<model, dimensions, chunkerVars, provider, callerVars>>

(* The documents added: blank contents of every length, and contents of    *)
(* one word and of several under two ids, one the other's beginning, with  *)
(* no metadata, a key of the caller's, and a key named chunkIndex.         *)
DocumentIds == {<<"a">>, <<"a", "-", "b">>}

BlankTexts == {t \in Texts : Trim(t) = <<>>}

CallerMetadatas ==
  {None, Some([key \in {"source"} |-> Str(Special)]),
   Some([key \in {"source", "chunkIndex"} |->
           IF key = "source" THEN Str(Special) ELSE Num(7)])}

Document(id, content, metadata) ==
  [id |-> id, content |-> content, metadata |-> metadata]

Documents ==
  {Document(<<"a">>, t, None) : t \in BlankTexts}
    \cup {Document(<<"a">>, <<"a">>, m) : m \in CallerMetadatas}
    \cup {Document(<<"a", "-", "b">>, <<"a", " ", "a", ".">>, m) : m \in CallerMetadatas}
    \cup {Document(<<"a">>, <<"a", "|", ".", "\n", "a">>, None)}

(* The chunkOptions a RAG is made with: every valid one, and an invalid    *)
(* one, which the constructor takes as well.                               *)
RagChunkOptions ==
  {o \in [chunkSize : ChunkSizes, chunkOverlap : ChunkOverlaps,
          separator : Separators] :
     \/ ValidateOptions(OrDefault(o.chunkSize, DEFAULT_CHUNK_SIZE),
                        OrDefault(o.chunkOverlap, DEFAULT_CHUNK_OVERLAP)) = "ok"
     \/ (o.chunkSize = Some(0) /\ o.chunkOverlap = None /\ o.separator = <<>>)}

-----------------------------------------------------------------------------
(* The command line (src/unnamed/part_002).  An argument is a string; the  *)
(* options object is the function from its keys to its values, a value a   *)
(* string or true.                                                         *)

DashDash == <<"-", "-">>

BuildCommand == <<"b", "u", "i", "l", "d">>

InputKey == <<"i", "n", "p", "u", "t">>

ChunkSizeKey == <<"c", "h", "u", "n", "k", "-", "s", "i", "z", "e">>

ChunkOverlapKey == <<"c", "h", "u", "n", "k", "-", "o", "v", "e", "r", "l", "a", "p">>

VerboseKey == <<"v", "e", "r", "b", "o", "s", "e">>

PositionalKey == <<"p", "o", "s", "i", "t", "i", "o", "n", "a", "l">>

OptionTrue == [k |-> "true", s |-> <<>>]

SetOption(options, key, value) ==
  [name \in DOMAIN options \cup {key} |->
     IF name = key THEN value ELSE options[name]]

(* The loop of parseArgs from args[i] on (i from 0). *)
RECURSIVE ParseArgsFrom(_, _, _)
ParseArgsFrom(args, i, options) ==
  IF i >= Len(args) THEN options
  ELSE LET arg == args[i + 1]
           hasNext == i + 1 < Len(args)
           next == args[i + 2]
       IN IF startsWith(arg, DashDash)
            THEN IF hasNext /\ next # <<>> /\ ~startsWith(next, DashDash)
                   THEN ParseArgsFrom(args, i + 2,
                          SetOption(options, Slice(arg, 2, Len(arg)), Str(next)))
                   ELSE ParseArgsFrom(args, i + 1,
                          SetOption(options, Slice(arg, 2, Len(arg)), OptionTrue))
            ELSE IF PositionalKey \notin DOMAIN options
                      \/ options[PositionalKey] = Str(<<>>)
                   THEN ParseArgsFrom(args, i + 1,
                          SetOption(options, PositionalKey, Str(arg)))
                   ELSE ParseArgsFrom(args, i + 1, options)

parseArgs(args) ==
  [command |-> IF args # <<>> /\ args[1] # <<>> THEN args[1] ELSE <<"h", "e", "l", "p">>,
   options |-> ParseArgsFrom(args, 1, EmptyObject)]

(* The value of the digits of str from position i (from 1) on, after the   *)
(* value acc of those before.                                              *)
RECURSIVE DigitsFrom(_, _, _)
DigitsFrom(str, i, acc) ==
  IF i <= Len(str) /\ \E d \in 0..9 : DigitChars[d + 1] = str[i]
    THEN DigitsFrom(str, i + 1,
           10 * acc + (CHOOSE d \in 0..9 : DigitChars[d + 1] = str[i]))
    ELSE acc

(* parseInt of a string without a radix prefix: whitespace, a sign, then   *)
(* the digits up to the first other character; NaN without a digit.        *)
ParseIntString(str) ==
  LET t == TrimStart(str)
      signed == t # <<>> /\ t[1] \in {"-", "+"}
      digits == IF signed THEN Tail(t) ELSE t
  IN IF digits = <<>> \/ ~(\E d \in 0..9 : DigitChars[d + 1] = digits[1])
       THEN NaN
       ELSE LET n == DigitsFrom(digits, 1, 0)
            IN IF signed /\ t[1] = "-"
                 THEN (IF n = 0 THEN NegZero ELSE Num(0 - n))
                 ELSE Num(n)

(* parseInt(options[key]): of undefined and of true it is NaN. *)
parseInt(options, key) ==
  IF key \in DOMAIN options /\ options[key].k = "string"
    THEN ParseIntString(options[key].s)
    ELSE NaN

(* x || d, on a number x: d for NaN, 0 and -0. *)
OrElse(x, d) == IF x.k = "finite" /\ x.v # 0 THEN x.v ELSE d

InputRequired == "--input is required"

(* main up to new RAG in build, on an input path that exists and holds     *)
(* files: the error printed before exit(1), or the chunkOptions of the     *)
(* RAG.  Other commands make no RAG.                                       *)
BuildOptions(args) ==
  LET options == parseArgs(args).options
  IN IF parseArgs(args).command # BuildCommand
       THEN [error |-> "no build", chunkOptions |-> opts]
     ELSE IF InputKey \notin DOMAIN options
       THEN [error |-> InputRequired, chunkOptions |-> opts]
     ELSE [error |-> "ok",
           chunkOptions |->
             [chunkSize |->
                Some(OrElse(parseInt(options, ChunkSizeKey), DEFAULT_CHUNK_SIZE)),
              chunkOverlap |->
                Some(OrElse(parseInt(options, ChunkOverlapKey),
                            DEFAULT_CHUNK_OVERLAP)),
              separator |-> <<>>]]

Main(args) ==
  /\ pc = "idle"
  /\ opts' = BuildOptions(args).chunkOptions
  /\ last' = Call("main", BuildOptions(args).error, args, <<>>)
  /\ UNCHANGED <<text, pc, err, segs, current, overlapBuffer, out,
                 model, dimensions, chunks, blob, provider, callerVars>>

(* The command lines: build with an input, with and without the two chunk  *)
(* options, their values numbers, numbers with a unit, a sign or nothing.  *)
OptionValues ==
  {<<"0">>, <<"1">>, <<"2">>, <<"4", "0">>, <<"5", "1", "2">>, <<"3", "p">>,
   <<"-", "1">>, <<"p">>}

OptionArgs(key) ==
  {<<>>, <<DashDash \o key>>} \cup {<<DashDash \o key, v>> : v \in OptionValues}

CommandLines ==
  {<<BuildCommand, DashDash \o InputKey, <<"d">>>> \o size \o overlap \o verbose :
     size \in OptionArgs(ChunkSizeKey), overlap \in OptionArgs(ChunkOverlapKey),
     verbose \in {<<>>, <<DashDash \o VerboseKey>>}}
    \cup {<<>>, <<BuildCommand>>, <<BuildCommand, <<"d">>>>, <<<<"i", "n", "f", "o">>, <<"d">>>>}

-----------------------------------------------------------------------------
(* The ways to make a RAG (src/src/rag.ts), and TransformersEmbedding, the *)
(* provider they make for a model name.                                    *)

DEFAULT_MODEL ==
  <<"X", "e", "n", "o", "v", "a", "/", "a", "l", "l", "-", "M", "i", "n", "i", "L", "M", "-", "L", "6", "-", "v", "2">>

BgeBaseModel ==
  <<"X", "e", "n", "o", "v", "a", "/", "b", "g", "e", "-", "b", "a", "s", "e", "-", "e", "n", "-", "v", "1", ".", "5">>

(* MODEL_DIMENSIONS[model] ?? 384: the table gives 768 to one model and    *)
(* 384 to the others it names.                                             *)
ModelDimensions(m) == IF m = BgeBaseModel THEN 768 ELSE 384

(* new TransformersEmbedding(model): no pipeline, and no loadPromise (0).  *)
(* The field loads holds the promises loadPipeline has returned, in the    *)
(* order of its calls; loadPromise, once set, is the place of one of them. *)
TransformersEmbedding(m) ==
  [model |-> m, dimensions |-> ModelDimensions(m),
   pipeline |-> FALSE, loadPromise |-> 0, loads |-> <<>>]

(* createEmbeddingProvider(options.model) for a model name or none: the    *)
(* empty name is falsy.                                                    *)
createEmbeddingProvider(modelOption) ==
  IF modelOption = None \/ modelOption[1] = <<>>
    THEN TransformersEmbedding(DEFAULT_MODEL)
    ELSE TransformersEmbedding(modelOption[1])

(* A RAG made, or the error thrown in making it: its provider and store. *)
Rag(e, p, m, dims, cs) ==
  [error |-> e, provider |-> p, model |-> m, dimensions |-> dims, chunks |-> cs]

(* new RAG(options) *)
newRAG(modelOption) ==
  LET p == createEmbeddingProvider(modelOption)
  IN Rag("ok", p, p.model, p.dimensions, <<>>)

(* RAG.withEmbedding(provider) *)
withEmbedding(p) == Rag("ok", p, p.model, p.dimensions, <<>>)

(* RAG.fromIndex(data): a RAG for the model named in the index, with its   *)
(* store replaced by the one loaded from the index.                        *)
ragFromIndex(data) ==
  LET rag == newRAG(Some(data.model))
      store == fromSerialized(data)
  IN Rag(store.error, rag.provider, store.model, store.dimensions, store.chunks)

(* RAG.fromJSON(json) *)
ragFromJSON(json) == ragFromIndex(JsonParse(json))

(* RAG.fromBinary(buffer) *)
ragFromBinary(buffer) ==
  LET store == fromBinary(buffer)
  IN IF store.error # "ok"
       THEN Rag(store.error, provider, <<>>, 0, <<>>)
       ELSE ragFromIndex(serialize(store.model, store.dimensions, store.chunks))

(* A RAG made: it replaces the one under observation; none is made when    *)
(* the making throws.                                                      *)
Make(op, rag, arg) ==
  /\ last' = Call(op, rag.error, arg, <<>>)
  /\ blob' = NoBlob
  /\ IF rag.error = "ok"
       THEN /\ provider' = rag.provider
            /\ model' = rag.model
            /\ dimensions' = rag.dimensions
            /\ chunks' = rag.chunks
            /\ handedOut' = Detached
       ELSE UNCHANGED <<provider, model, dimensions, chunks, handedOut>>
  /\ UNCHANGED <<chunkerVars, awaiting>>

NewRAG(modelOption) == Make("new RAG", newRAG(modelOption), modelOption)

WithEmbedding(p) == Make("withEmbedding", withEmbedding(p), p)

RagFromIndex(data) == Make("RAG.fromIndex", ragFromIndex(data), data)

(* RAG.fromIndex(rag.serialize()) *)
RagFromSerialize ==
  Make("RAG.fromIndex", ragFromIndex(serialize(model, dimensions, chunks)),
       serialize(model, dimensions, chunks))

RagFromJSON ==
  /\ blob.kind = "json"
  /\ Make("RAG.fromJSON", ragFromJSON(blob.json), blob.json)

RagFromBinary ==
  /\ blob.kind = "binary"
  /\ Make("RAG.fromBinary", ragFromBinary(blob.buffer), blob.buffer)

(* The model names and the providers given. *)
ModelOptions == {None, Some(<<>>), Some(BgeBaseModel), Some(<<"k">>)}

Providers == {MockEmbedding(1), MockEmbedding(2)}

-----------------------------------------------------------------------------
(* addChunks as the asynchronous function it is (src/src/rag.ts): a call   *)
(* runs to its await of embed and returns a promise; it goes on, to        *)
(* addAll, when the event loop resumes it.  The variable awaiting holds    *)
(* the promises of the calls made, in the order of the calls, as the       *)
(* caller holds them: the chunks of the call, the embeddings it awaits,    *)
(* its state, and whether the caller has called clear() since.             *)

MaxCalls == 3

(* The caller names its documents 1, 2, 3, ... in the order it adds them. *)
NextDocumentId == NumberToString(Len(awaiting) + 1)

Pending == {i \in 1..Len(awaiting) : awaiting[i].state = "pending"}

(* addChunks(chunks) up to its await: it returns at once for no chunks,    *)
(* and else calls embed, which fills the cache of the provider, and        *)
(* suspends.                                                               *)
AddChunksCall(texts) ==
  /\ pc = "idle"
  /\ Len(awaiting) < MaxCalls
  /\ LET created == createChunks(texts, NextDocumentId, None)
         embedded == embed(provider, [i \in 1..Len(created) |-> created[i].content])
     IN /\ provider' = embedded.this
        /\ awaiting' = Append(awaiting,
             [chunks |-> created, embeddings |-> embedded.result,
              state |-> IF created = <<>> THEN "fulfilled" ELSE "pending",
              cleared |-> FALSE])
        /\ last' = Call("addChunks", IF created = <<>> THEN "ok" ELSE "pending",
                        created, <<>>)
  /\ blob' = NoBlob
  /\ UNCHANGED <<model, dimensions, chunks, chunkerVars, handedOut>>

(* addChunks from its await on, for the call suspended first: the embedded *)
(* chunks are built and handed to addAll of the store the RAG has now.     *)
AddChunksResume ==
  /\ Pending # {}
  /\ LET i == CHOOSE j \in Pending : \A k \in Pending : j <= k
         call == awaiting[i]
         embeddedChunks ==
           [j \in 1..Len(call.chunks) |->
              [id |-> call.chunks[j].id, content |-> call.chunks[j].content,
               metadata |-> call.chunks[j].metadata,
               embedding |-> call.embeddings[j]]]
         added == addAll(chunks, dimensions, embeddedChunks)
     IN /\ chunks' = added.chunks
        /\ awaiting' = [awaiting EXCEPT ![i].state =
                          IF added.error = "ok" THEN "fulfilled" ELSE "rejected"]
        /\ last' = Call("addChunks resumed", added.error, call.chunks, <<>>)
  /\ blob' = NoBlob
  /\ UNCHANGED <<model, dimensions, chunkerVars, provider, handedOut>>

(* RAG.clear(), called among the calls of addChunks: the store is cleared, *)
(* and no suspended call is touched.  The caller notes the clear at the    *)
(* promises it holds.                                                      *)
ClearAmongCalls ==
  /\ pc = "idle"
  /\ chunks' = <<>>
  /\ awaiting' = [i \in 1..Len(awaiting) |-> [awaiting[i] EXCEPT !.cleared = TRUE]]
  /\ last' = Call("clear", "ok", <<>>, <<>>)
  /\ blob' = NoBlob
  /\ handedOut' = Detached
  /\ UNCHANGED <<model, dimensions, chunkerVars, provider>>

(* The contents of the chunks added by one call. *)
CallTexts == {<<>>, <<<<"a">>>>, <<<<"a">>, <<"A">>>>}

-----------------------------------------------------------------------------
(* The loading of TransformersEmbedding (src/src/embeddings.ts).  embed is *)
(* asynchronous: a call runs ensureLoaded to its await and is resumed when *)
(* the promise it awaits is settled.  The variable awaiting holds the      *)
(* promises of the calls of embed, in the order of the calls.              *)

MaxEmbedCalls == 3

LoadFailed == "Failed to load transformers.js model"

PipelineFailed == "pipeline failed"

(* loadPipeline(), to its first await: a promise more, pending. *)
loadPipeline(this) == [this EXCEPT !.loads = Append(@, "pending")]

(* ensureLoaded that starts a load again once the one it holds has failed. *)
ensureLoadedRetry(this) ==
  IF this.pipeline
    THEN [this |-> this, awaits |-> 0]
    ELSE IF this.loadPromise = 0 \/ this.loads[this.loadPromise] = "rejected"
      THEN [this |-> [loadPipeline(this) EXCEPT !.loadPromise = Len(this.loads) + 1],
            awaits |-> Len(this.loads) + 1]
      ELSE [this |-> this, awaits |-> this.loadPromise]

(* ensureLoaded(), to its await: it returns when there is a pipeline, and  *)
(* else awaits loadPromise, set to a new load when there is none.  awaits  *)
(* is the promise awaited, 0 for none.                                     *)
ensureLoaded(this) ==
  IF this.pipeline
    THEN [this |-> this, awaits |-> 0]
    ELSE IF this.loadPromise = 0
      THEN [this |-> [loadPipeline(this) EXCEPT !.loadPromise = Len(this.loads) + 1],
            awaits |-> Len(this.loads) + 1]
      ELSE [this |-> this, awaits |-> this.loadPromise]

(* embed(texts), to its await of ensureLoaded. *)
EmbedCall(texts) ==
  /\ pc = "idle"
  /\ Len(awaiting) < MaxEmbedCalls
  /\ LET loading == ensureLoaded(provider)
     IN /\ provider' = loading.this
        /\ awaiting' = Append(awaiting,
             [texts |-> texts, awaits |-> loading.awaits,
              state |-> "pending", error |-> "ok"])
  /\ last' = Call("embed", "pending", texts, <<>>)
  /\ blob' = NoBlob
  /\ UNCHANGED <<model, dimensions, chunks, chunkerVars, handedOut>>

(* loadPipeline, when the import and the pipeline factory have succeeded:  *)
(* the pipeline is assigned; the promise is fulfilled a step later.        *)
LoadAssign(k) ==
  /\ k \in 1..Len(provider.loads)
  /\ provider.loads[k] = "pending"
  /\ provider' = [provider EXCEPT !.pipeline = TRUE, !.loads[k] = "assigned"]
  /\ last' = Call("loadPipeline", "pending", <<>>, <<>>)
  /\ blob' = NoBlob
  /\ UNCHANGED <<model, dimensions, chunks, chunkerVars, callerVars>>

LoadFulfil(k) ==
  /\ k \in 1..Len(provider.loads)
  /\ provider.loads[k] = "assigned"
  /\ provider' = [provider EXCEPT !.loads[k] = "fulfilled"]
  /\ last' = Call("loadPipeline", "ok", <<>>, <<>>)
  /\ blob' = NoBlob
  /\ UNCHANGED <<model, dimensions, chunks, chunkerVars, callerVars>>

(* loadPipeline, when the import or the pipeline factory throws: the catch *)
(* throws the load error, and the promise is rejected with it.             *)
LoadReject(k) ==
  /\ k \in 1..Len(provider.loads)
  /\ provider.loads[k] = "pending"
  /\ provider' = [provider EXCEPT !.loads[k] = "rejected"]
  /\ last' = Call("loadPipeline", LoadFailed, <<>>, <<>>)
  /\ blob' = NoBlob
  /\ UNCHANGED <<model, dimensions, chunks, chunkerVars, callerVars>>

(* Whether the promise a call awaits is settled: a return of ensureLoaded  *)
(* is. *)
Settled(this, k) ==
  IF k = 0 THEN TRUE ELSE this.loads[k] \in {"fulfilled", "rejected"}

(* embed from its await on, for the i-th call: the rejection of the load   *)
(* is thrown on; else the pipeline is run on every text, and fails or not. *)
EmbedResume(i, pipelineError) ==
  /\ i \in 1..Len(awaiting)
  /\ awaiting[i].state = "pending"
  /\ Settled(provider, awaiting[i].awaits)
  /\ LET k == awaiting[i].awaits
         error == IF k # 0 /\ provider.loads[k] = "rejected" THEN LoadFailed
                  ELSE IF awaiting[i].texts # <<>> THEN pipelineError
                  ELSE "ok"
     IN /\ awaiting' = [awaiting EXCEPT
                          ![i].state = IF error = "ok" THEN "fulfilled" ELSE "rejected",
                          ![i].error = error]
        /\ last' = Call("embed resumed", error, awaiting[i].texts, <<>>)
  /\ blob' = NoBlob
  /\ UNCHANGED <<model, dimensions, chunks, chunkerVars, provider, handedOut>>

(* The texts of the calls of embed. *)
LoadTexts == {<<>>, <<<<"a">>>>}

-----------------------------------------------------------------------------
(* The specifications. *)

ChunkerIdle ==
  /\ text = <<>>
  /\ opts = [chunkSize |-> None, chunkOverlap |-> None, separator |-> <<>>]
  /\ pc = "idle"
  /\ err = ""
  /\ segs = <<>>
  /\ current = <<>>
  /\ overlapBuffer = <<>>
  /\ out = <<>>

NewStore(m, dims) ==
  /\ model = m
  /\ dimensions = dims
  /\ chunks = <<>>
  /\ blob = NoBlob
  /\ last = [op |-> "new", error |-> "ok",
             pre |-> [model |-> m, dimensions |-> dims, chunks |-> <<>>],
             arg |-> <<>>, result |-> <<>>]
  /\ handedOut = None
  /\ awaiting = <<>>

(* The store: its calls and its two serialized forms. *)
Init ==
  /\ ChunkerIdle
  /\ \E dims \in {1, 2} : NewStore(<<"m">>, dims)
  /\ provider = MockEmbedding(2)

Next ==
  \/ \E chunk \in Chunks : Add(chunk, MaxChunks)
  \/ \E batch \in Batches : AddAll(batch, MaxChunks)
  \/ \E id \in Ids : Remove(id)
  \/ Clear
  \/ ToJSON
  \/ FromJSON
  \/ ToBinary
  \/ FromBinary
  \/ \E magic \in Magics, version \in Versions, chunkCount \in {-1, 0, 1} :
       FromBinaryBuffer(magic, version, chunkCount)
  \/ \E data \in SerializedInputs : FromSerialized(data)

Spec == Init /\ [][Next]_vars

(* Search over a store filled by add.  search and cosineSimilarity leave   *)
(* the store as it is, so the reads of one store are all made from the     *)
(* states that its construction and its changes left.                      *)
Reading == last.op \in {"search", "cosineSimilarity"}

SearchInit ==
  /\ ChunkerIdle
  /\ NewStore(<<"m">>, 2)
  /\ provider = MockEmbedding(2)

SearchNext ==
  \/ \E chunk \in SearchChunks(Len(chunks)) : Add(chunk, MaxSearchChunks)
  \/ Clear
  \/ \E q \in Queries, o \in SearchOptions : ~Reading /\ Search(q, o)
  \/ \E a \in Queries, b \in Queries : ~Reading /\ CosineSimilarity(a, b)

SearchSpec == SearchInit /\ [][SearchNext]_vars

(* chunkText on every text and every option. *)
ChunkInit ==
  /\ text \in Texts
  /\ opts \in [chunkSize : ChunkSizes, chunkOverlap : ChunkOverlaps,
               separator : Separators]
  /\ pc = "start"
  /\ err = ""
  /\ segs = <<>>
  /\ current = <<>>
  /\ overlapBuffer = <<>>
  /\ out = <<>>
  /\ NewStore(<<"m">>, 2)
  /\ provider = MockEmbedding(2)

(* getOverlapText on every chunk and every overlap. *)
OverlapInit ==
  /\ text \in Texts
  /\ opts \in [chunkSize : {None}, chunkOverlap : {Some(n) : n \in 0..MaxOverlap},
               separator : {<<>>}]
  /\ pc = "overlap"
  /\ err = ""
  /\ segs = <<>>
  /\ current = <<>>
  /\ overlapBuffer = <<>>
  /\ out = <<>>
  /\ NewStore(<<"m">>, 2)
  /\ provider = MockEmbedding(2)

OverlapNext == GetOverlapText

OverlapSpec == OverlapInit /\ [][OverlapNext]_vars

(* The store and the index that serialize handed out, each changed by its *)
(* holder.                                                                 *)
AliasNext ==
  \/ \E chunk \in AliasChunks : Add(chunk, MaxChunks)
  \/ \E batch \in AliasBatches : AddAll(batch, MaxChunks)
  \/ \E id \in Ids : Remove(id)
  \/ Clear
  \/ Serialize
  \/ \E chunk \in AliasChunks : HandedOutPush(chunk, MaxChunks)
  \/ HandedOutPop

AliasSpec == Init /\ [][AliasNext]_vars

(* RAGs made in every way, filled, written and made again from what was    *)
(* written.                                                                *)
FactoryInit ==
  /\ ChunkerIdle
  /\ provider = newRAG(None).provider
  /\ NewStore(newRAG(None).model, newRAG(None).dimensions)

FactoryNext ==
  \/ \E modelOption \in ModelOptions : NewRAG(modelOption)
  \/ \E p \in Providers : WithEmbedding(p)
  \/ \E data \in SerializedInputs : RagFromIndex(data)
  \/ RagFromSerialize
  \/ RagFromJSON
  \/ RagFromBinary
  \/ \E chunk \in AliasChunks : Add(chunk, MaxChunks)
  \/ Clear
  \/ ToJSON
  \/ ToBinary

FactorySpec == FactoryInit /\ [][FactoryNext]_vars

(* A RAG made by withEmbedding, with calls of addChunks suspended and       *)
(* resumed around calls of clear.                                          *)
AsyncInit ==
  /\ ChunkerIdle
  /\ provider = MockEmbedding(2)
  /\ NewStore(MockEmbedding(2).model, MockEmbedding(2).dimensions)

AsyncNext ==
  \/ \E texts \in CallTexts : AddChunksCall(texts)
  \/ AddChunksResume
  \/ ClearAmongCalls

AsyncSpec == AsyncInit /\ [][AsyncNext]_vars

(* One TransformersEmbedding under calls of embed, its load succeeding or  *)
(* failing at any time.                                                    *)
LoadInit ==
  /\ ChunkerIdle
  /\ provider = TransformersEmbedding(DEFAULT_MODEL)
  /\ NewStore(DEFAULT_MODEL, ModelDimensions(DEFAULT_MODEL))

LoadNext ==
  \/ \E texts \in LoadTexts : EmbedCall(texts)
  \/ \E k \in 1..MaxEmbedCalls : LoadAssign(k)
  \/ \E k \in 1..MaxEmbedCalls : LoadFulfil(k)
  \/ \E k \in 1..MaxEmbedCalls : LoadReject(k)
  \/ \E i \in 1..MaxEmbedCalls, pipelineError \in {"ok", PipelineFailed} :
       EmbedResume(i, pipelineError)

LoadSpec == LoadInit /\ [][LoadNext]_vars

(* The command line tool, run on every command line. *)
CliNext == \E args \in CommandLines : Main(args)

CliSpec == Init /\ [][CliNext]_vars

(* MockEmbedding.embed on sequences of texts, some of them repeated. *)
EmbedInit ==
  /\ ChunkerIdle
  /\ NewStore(<<"m">>, 2)
  /\ \E dims \in {1, 2} : provider = MockEmbedding(dims)

EmbedNext ==
  \E texts \in UNION {[1..n -> EmbedTexts] : n \in 0..MaxEmbedTexts} : Embed(texts)

EmbedSpec == EmbedInit /\ [][EmbedNext]_vars

(* A RAG over the mock provider: documents added and removed.  A call of  *)
(* addDocument that created no chunk returned from addChunks at once and   *)
(* left the store and the provider as they were, so the documents added    *)
(* after it are those added after the call before it.                      *)
NothingAdded ==
  last.op = "addDocument" /\ last.error = "ok" /\ last.result = <<>>

RagInit ==
  /\ text = <<>>
  /\ opts \in RagChunkOptions
  /\ pc = "idle"
  /\ err = ""
  /\ segs = <<>>
  /\ current = <<>>
  /\ overlapBuffer = <<>>
  /\ out = <<>>
  /\ provider = MockEmbedding(2)
  /\ NewStore(<<"m", "o", "c", "k">>, 2)

RagNext ==
  \/ \E doc \in Documents : ~NothingAdded /\ AddDocument(doc, MaxRagChunks)
  \/ ChunkText
  \/ MergeSegment
  \/ HardSplit
  \/ MergeReturn
  \/ AddChunks
  \/ AddDocumentThrow
  \/ \E documentId \in DocumentIds : RemoveDocument(documentId)

RagSpec == RagInit /\ [][RagNext]_vars

ChunkNext == ChunkText \/ MergeSegment \/ HardSplit \/ MergeReturn

ChunkSpec == ChunkInit /\ [][ChunkNext]_vars

-----------------------------------------------------------------------------
(* The chunker's contract, over ChunkSpec. *)

(* C1: for every text, all valid options and every separator, every string *)
(* that chunkText returns has length <= chunkSize.                         *)
C1_SizeBound ==
  pc = "done" => \A i \in 1..Len(out) : Len(out[i]) <= chunkSize

(* C2: for every text and all valid options, every string that chunkText   *)
(* returns is non-empty and has no leading or trailing whitespace.         *)
C2_NonEmptyTrimmed ==
  pc = "done" => \A i \in 1..Len(out) : out[i] # <<>> /\ Trim(out[i]) = out[i]

InvalidOptions == chunkSize <= 0 \/ chunkOverlap < 0 \/ chunkOverlap >= chunkSize

(* C9: a call with chunkSize <= 0, chunkOverlap < 0 or chunkOverlap >=      *)
(* chunkSize throws, for every text and separator, before any splitting    *)
(* and without returning a fragment.                                       *)
C9_InvalidOptionsThrow ==
  (InvalidOptions /\ pc # "start")
    => /\ pc = "error"
       /\ err # ""
       /\ out = <<>>
       /\ segs = <<>>
       /\ current = <<>>

C9_Witness ==
  /\ pc = "error"
  /\ chunkSize > 0
  /\ chunkOverlap = chunkSize
  /\ Trim(text) # <<>>
  /\ Len(text) <= chunkSize
  /\ separator # <<>>

OnlyChunkSize(n) ==
  /\ opts.chunkSize = Some(n)
  /\ opts.chunkOverlap = None
  /\ opts.separator = <<>>

(* C10 as stated: for every positive n and every text of length <= n,      *)
(* chunkText(text, {chunkSize: n}) returns exactly one fragment, the       *)
(* trimmed input.                                                          *)
C10_Original ==
  \A n \in 1..(DEFAULT_CHUNK_OVERLAP + 1) :
    (OnlyChunkSize(n) /\ Len(text) <= n /\ pc # "start")
      => pc = "done" /\ out = <<Trim(text)>>

(* C10, amended: for every n above the default chunkOverlap of 50 and      *)
(* every text of length <= n that is not all whitespace,                   *)
(* chunkText(text, {chunkSize: n}) returns exactly one fragment, the       *)
(* trimmed input.                                                          *)
C10_SingleFragment ==
  \A n \in 1..(DEFAULT_CHUNK_OVERLAP + 1) :
    (/\ OnlyChunkSize(n)
     /\ n > DEFAULT_CHUNK_OVERLAP
     /\ Len(text) <= n
     /\ Trim(text) # <<>>
     /\ pc # "start")
      => pc = "done" /\ out = <<Trim(text)>>

C10_Witness ==
  /\ pc = "done"
  /\ OnlyChunkSize(DEFAULT_CHUNK_OVERLAP + 1)
  /\ Trim(text) # text
  /\ out = <<Trim(text)>>

-----------------------------------------------------------------------------
(* The store's invariants and its codec, over Spec. *)

(* C3: after any sequence of add, addAll, remove, clear and loads, the     *)
(* stored records have pairwise distinct ids.                              *)
C3_UniqueIds ==
  \A i, j \in 1..Len(chunks) : i # j => chunks[i].id # chunks[j].id

(* C4: after any sequence of add, addAll, remove, clear, fromSerialized,   *)
(* fromJSON and fromBinary, every record's embedding has as many           *)
(* components as the store has dimensions.                                 *)
C4_EmbeddingLength ==
  \A i \in 1..Len(chunks) : Len(chunks[i].embedding) = dimensions

C4_Witness ==
  /\ last.op = "addAll"
  /\ last.error = DimensionMismatch
  /\ Len(chunks) = Len(last.pre.chunks) + 1
  /\ Len(last.arg[2].embedding) # dimensions

(* The buffer loaded is the one toBinary returned. *)
Untampered ==
  last.op = "fromBinary"
    => last.arg = toBinary(last.pre.model, last.pre.dimensions, last.pre.chunks)

RoundTrip == last.op \in {"fromJSON", "fromBinary"} /\ Untampered

(* C8 as stated: for every store, fromJSON(toJSON(store)) and              *)
(* fromBinary(toBinary(store)) yield a store with the same model name,     *)
(* dimensions and records, field by field and in the same order.           *)
C8_Original ==
  RoundTrip => last.error = "ok" /\ Snapshot = last.pre

(* A finite number other than -0, and one that a 32-bit float holds. *)
JsonExact(x) == x.k = "finite"

Float32Exact(x) == x.k = "finite" /\ FroundInt(x.v) = x.v

MetadataExact(m) == m = None \/ m[1].val.k \in {"string", "finite"}

AllComponents(cs, Exact(_)) ==
  \A i \in 1..Len(cs) :
    /\ MetadataExact(cs[i].metadata)
    /\ \A j \in 1..Len(cs[i].embedding) : Exact(cs[i].embedding[j])

(* C8, amended: for every store whose embedding components are finite      *)
(* numbers other than -0 and whose metadata values are strings or finite   *)
(* numbers, fromJSON(toJSON(store)) yields a store with the same model     *)
(* name, dimensions and records, field by field and in the same order;     *)
(* and so does fromBinary(toBinary(store)) when every component is         *)
(* moreover exactly representable as a 32-bit float.                       *)
C8_RoundTrip ==
  /\ (last.op = "fromJSON" /\ AllComponents(last.pre.chunks, JsonExact))
       => last.error = "ok" /\ Snapshot = last.pre
  /\ (/\ last.op = "fromBinary"
      /\ Untampered
      /\ AllComponents(last.pre.chunks, Float32Exact))
       => last.error = "ok" /\ Snapshot = last.pre

C8_Witness ==
  /\ last.op = "fromBinary"
  /\ Untampered
  /\ AllComponents(last.pre.chunks, Float32Exact)
  /\ Len(chunks) = 2
  /\ chunks[1].metadata = None
  /\ chunks[2].metadata # None
  /\ Snapshot = last.pre

-----------------------------------------------------------------------------
(* Search, over SearchSpec. *)

(* C5: add with an embedding of the wrong length, search with a query of   *)
(* the wrong length (on an empty store too) and cosineSimilarity on        *)
(* vectors of unequal length each throw a dimension-mismatch error; the    *)
(* failed add or search leaves the records as they were and the search     *)
(* returns nothing.                                                        *)
C5_MismatchThrows ==
  /\ (last.op = "add" /\ Len(last.arg.embedding) # last.pre.dimensions)
       => last.error = DimensionMismatch /\ chunks = last.pre.chunks
  /\ (last.op = "search"
        /\ Len(last.arg.queryEmbedding) # last.pre.dimensions)
       => /\ last.error = DimensionMismatch
          /\ chunks = last.pre.chunks
          /\ last.result = <<>>
  /\ (last.op = "cosineSimilarity" /\ Len(last.arg[1]) # Len(last.arg[2]))
       => last.error = VectorMismatch

C5_Witness ==
  /\ last.op = "add"
  /\ Len(last.arg.embedding) # dimensions
  /\ last.error = DimensionMismatch
  /\ chunks # <<>>

SearchReturned ==
  /\ last.op = "search"
  /\ Len(last.arg.queryEmbedding) = last.pre.dimensions

TopKOf(options) == OrDefault(options.topK, DEFAULT_TOP_K)

(* C6: for a query of the right length and a non-negative topK, search     *)
(* returns exactly the records, in insertion order, that the filter        *)
(* accepts and whose cosine similarity to the query is at least threshold, *)
(* stably sorted by descending score and cut to the first topK; topK       *)
(* defaults to 5 and threshold to 0.                                       *)
C6_SearchResult ==
  (SearchReturned /\ TopKOf(last.arg.options) >= 0)
    => LET cs == last.pre.chunks
           q == last.arg.queryEmbedding
           o == last.arg.options
           topK == TopKOf(o)
           threshold == OrDefault(o.threshold, Fraction(DEFAULT_THRESHOLD, 1))
           ScoreOf(i) == cosineSimilarity(q, cs[i].embedding).score
           Kept == {i \in 1..Len(cs) :
                      /\ o.filter = None \/ FilterAccepts(o.filter[1], cs[i].metadata)
                      /\ ScoreGE(ScoreOf(i), threshold)}
           Before(j, i) ==
             \/ ScoreGT(ScoreOf(j), ScoreOf(i))
             \/ ~ScoreGT(ScoreOf(i), ScoreOf(j)) /\ j < i
           Rank(i) == 1 + Cardinality({j \in Kept : Before(j, i)})
       IN /\ last.error = "ok"
          /\ Len(last.result) = Min(topK, Cardinality(Kept))
          /\ \A i \in Kept :
               Rank(i) <= topK
                 => last.result[Rank(i)] =
                      [chunk |-> [id |-> cs[i].id, content |-> cs[i].content,
                                  metadata |-> cs[i].metadata],
                       score |-> ScoreOf(i)]

C6_Witness ==
  /\ SearchReturned
  /\ last.arg.options.topK = None
  /\ last.arg.options.filter = None
  /\ Len(chunks) > DEFAULT_TOP_K
  /\ Len(last.result) = DEFAULT_TOP_K
  /\ last.result[1].chunk.id # chunks[1].id
  /\ last.result[1].score = last.result[2].score
  /\ last.result[2].score # last.result[DEFAULT_TOP_K].score

(* C7 as stated: for every store, every query of the right length and      *)
(* every topK, search returns at most topK results.                        *)
C7_Original ==
  SearchReturned => Len(last.result) <= TopKOf(last.arg.options)

(* C7, amended: for every store, every query of the right length and every *)
(* non-negative topK (5 when it is left out), search returns at most topK  *)
(* results.                                                                *)
C7_AtMostTopK ==
  (SearchReturned /\ TopKOf(last.arg.options) >= 0)
    => Len(last.result) <= TopKOf(last.arg.options)

C7_Witness ==
  /\ SearchReturned
  /\ last.arg.options.topK = Some(MaxTopK)
  /\ last.arg.options.filter = None
  /\ last.arg.options.threshold = Some(Fraction(-1, 1))
  /\ Len(chunks) > MaxTopK
  /\ Len(last.result) = MaxTopK

-----------------------------------------------------------------------------
(* Removal and batches, over Spec. *)

(* C13: in every reachable state of a store, after remove(id) has returned *)
(* true, has(id) returns false and get(id) returns undefined.              *)
C13_RemovedIsGone ==
  (last.op = "remove" /\ last.result = TRUE)
    => ~has(chunks, last.arg) /\ get(chunks, last.arg) = None

C18_AllOrNothing ==
  (last.op = "addAll" /\ last.error # "ok") => chunks = last.pre.chunks

(* C15: fromBinary on a buffer whose first four bytes are not the magic    *)
(* throws the invalid-format error whatever the version field and the rest *)
(* of the buffer hold; with the magic and a version other than 1 it throws *)
(* the unsupported-version error; in both cases no store is returned.      *)
C15_HeaderChecks ==
  last.op = "fromBinary"
    => /\ last.arg.magic # MAGIC
            => last.error = InvalidFormat /\ Snapshot = last.pre
       /\ (last.arg.magic = MAGIC /\ last.arg.version # INDEX_VERSION)
            => last.error = UnsupportedVersion /\ Snapshot = last.pre

C15_Witness ==
  /\ last.op = "fromBinary"
  /\ last.arg.magic # MAGIC
  /\ last.arg.version # INDEX_VERSION
  /\ last.arg.chunkCount # Len(last.arg.json.chunkMeta)
  /\ last.error = InvalidFormat
  /\ chunks # <<>>

-----------------------------------------------------------------------------
(* The separator and the overlap. *)

(* The text split on every occurrence of the separator, without the        *)
(* whitespace-only pieces, each piece trimmed.                             *)
TrimmedPieces == MapTrim(FilterNonBlank(SplitLiteral(text, separator)))

(* C19: with a separator, when every trimmed piece of the text has length  *)
(* <= chunkSize, chunkText returns exactly the trimmed pieces, in order,   *)
(* with no overlap added and no merging or splitting.  Over ChunkSpec.     *)
C19_SeparatorPieces ==
  (/\ pc = "done"
   /\ separator # <<>>
   /\ \A i \in 1..Len(TrimmedPieces) : Len(TrimmedPieces[i]) <= chunkSize)
    => out = TrimmedPieces

(* The last chunkOverlap characters of the chunk, and the positions of its *)
(* whitespace characters.                                                  *)
OverlapSlice == SubSeq(text, Max(Len(text) - chunkOverlap, 0) + 1, Len(text))

SliceWhitespace == {i \in 1..Len(OverlapSlice) : OverlapSlice[i] \in Whitespace}

(* C20 as stated, over OverlapSpec: for a chunk longer than the overlap,   *)
(* when the slice of its last overlap characters holds a whitespace        *)
(* character strictly after its first and strictly before its last         *)
(* character, the tail is the part of the slice after the nearest such     *)
(* character; otherwise the tail is the slice.                             *)
C20_Original ==
  (pc = "tail" /\ chunkOverlap > 0 /\ Len(text) > chunkOverlap)
    => LET Inner == {i \in SliceWhitespace : 1 < i /\ i < Len(OverlapSlice)}
       IN IF Inner # {}
            THEN \E i \in Inner :
                   /\ \A j \in Inner : i <= j
                   /\ overlapBuffer = SubSeq(OverlapSlice, i + 1, Len(OverlapSlice))
            ELSE overlapBuffer = OverlapSlice

(* C20, amended: with overlap > 0, a chunk no longer than the overlap has  *)
(* the empty tail; for a longer chunk, when the first whitespace character *)
(* of the slice of its last overlap characters lies strictly after the     *)
(* slice's first and strictly before its last character, the tail is the   *)
(* part of the slice after it; otherwise (no whitespace, or the first one  *)
(* is the slice's first or last character) the tail is the slice.          *)
C20_OverlapTail ==
  (pc = "tail" /\ chunkOverlap > 0)
    => IF Len(text) <= chunkOverlap
         THEN overlapBuffer = <<>>
         ELSE IF \E i \in SliceWhitespace :
                   /\ \A j \in SliceWhitespace : i <= j
                   /\ 1 < i /\ i < Len(OverlapSlice)
                THEN \E i \in SliceWhitespace :
                       /\ \A j \in SliceWhitespace : i <= j
                       /\ overlapBuffer =
                            SubSeq(OverlapSlice, i + 1, Len(OverlapSlice))
                ELSE overlapBuffer = OverlapSlice

C20_Witness ==
  /\ pc = "tail"
  /\ chunkOverlap > 0
  /\ Len(text) > chunkOverlap
  /\ 1 \in SliceWhitespace
  /\ \E i \in SliceWhitespace : 1 < i /\ i < Len(OverlapSlice)
  /\ overlapBuffer = OverlapSlice

-----------------------------------------------------------------------------
(* MockEmbedding's contract, over EmbedSpec. *)

(* The vector of every text the provider had met before the call is still  *)
(* the one it was, and every vector returned is the one kept for its text. *)
SameTextSameVector ==
  /\ \A t \in DOMAIN last.pre.vectors :
       /\ t \in DOMAIN provider.vectors
       /\ provider.vectors[t] = last.pre.vectors[t]
  /\ Len(last.result) = Len(last.arg)
  /\ \A i \in 1..Len(last.arg) :
       /\ last.arg[i] \in DOMAIN provider.vectors
       /\ last.result[i] = provider.vectors[last.arg[i]]
       /\ Len(last.result[i]) = provider.dimensions

(* C17 as stated: any two different texts get different vectors from       *)
(* embed, and the same text always gets the same vector.                   *)
C17_Original ==
  last.op = "embed" =>
    /\ SameTextSameVector
    /\ \A t, u \in DOMAIN provider.vectors :
         t # u => provider.vectors[t] # provider.vectors[u]

(* C17, amended: the same text always gets the same vector from one        *)
(* provider, in one call and from call to call, and two texts with the     *)
(* same hashCode get the same vector, different as the texts may be.       *)
C17_SameHashSameVector ==
  last.op = "embed" =>
    /\ SameTextSameVector
    /\ \A t, u \in DOMAIN provider.vectors :
         hashCode(t) = hashCode(u) => provider.vectors[t] = provider.vectors[u]

(* A call that asks again for a text of an earlier call and that holds two *)
(* different texts with one hash code.                                     *)
C17_Witness ==
  /\ last.op = "embed"
  /\ \E i \in 1..Len(last.arg) : last.arg[i] \in DOMAIN last.pre.vectors
  /\ \E i, j \in 1..Len(last.arg) :
       /\ last.arg[i] # last.arg[j]
       /\ hashCode(last.arg[i]) = hashCode(last.arg[j])
       /\ last.result[i] = last.result[j]

-----------------------------------------------------------------------------
(* The contract of createChunks and of the documents of RAG, over RagSpec. *)
(* When addDocument has returned, text is its content, out is what         *)
(* chunkText returned for it and last.result is what createChunks made.    *)

AddDocumentReturned ==
  last.op = "addDocument" /\ pc = "idle" /\ last.error = "ok"

(* C16: createChunks returns one chunk per fragment of chunkText, in the   *)
(* same order; the i-th chunk (from 0) has the id baseId-i, the i-th       *)
(* fragment as its content, metadata.chunkIndex = i, metadata.totalChunks  *)
(* = the number of fragments, and every other key of the caller's          *)
(* metadata with the caller's value.                                       *)
C16_CreatedChunks ==
  AddDocumentReturned =>
    /\ text = last.arg.content
    /\ Len(last.result) = Len(out)
    /\ \A i \in 1..Len(out) :
         LET chunk == last.result[i]
             given == last.arg.metadata
         IN /\ chunk.id = last.arg.id \o <<"-", DigitChars[i]>>
            /\ chunk.content = out[i]
            /\ DOMAIN chunk = {"id", "content", "metadata"}
            /\ chunk.metadata["chunkIndex"] = Num(i - 1)
            /\ chunk.metadata["totalChunks"] = Num(Len(out))
            /\ given # None =>
                 \A key \in DOMAIN given[1] \ {"chunkIndex", "totalChunks"} :
                   /\ key \in DOMAIN chunk.metadata
                   /\ chunk.metadata[key] = given[1][key]

(* Two fragments or more, made with a metadata that has a key of its own   *)
(* and a key named chunkIndex.                                             *)
C16_Witness ==
  /\ AddDocumentReturned
  /\ Len(out) >= 2
  /\ last.arg.metadata # None
  /\ {"source", "chunkIndex"} \subseteq DOMAIN last.arg.metadata[1]
  /\ last.result[2].metadata["source"] = Str(Special)
  /\ last.result[2].metadata["chunkIndex"] = Num(1)

(* The id of the document a chunk was created from: its id without the     *)
(* last hyphen and the index after it.                                     *)
DocumentOf(id) ==
  LET hyphen == CHOOSE i \in 1..Len(id) :
                  id[i] = "-" /\ \A j \in (i + 1)..Len(id) : id[j] # "-"
  IN SubSeq(id, 1, hyphen - 1)

KeptFrom(chunk) == DocumentOf(chunk.id) # last.arg

(* C12: removeDocument(d) removes every chunk that was created from the    *)
(* document d and no chunk that was created from another document: the     *)
(* store holds, in their order, the chunks of the other documents.         *)
C12_ExactlyTheDocument ==
  last.op = "removeDocument" =>
    chunks = SelectSeq(last.pre.chunks, KeptFrom)

(* C11: for every empty or whitespace-only text, of any length, every      *)
(* valid chunkSize and chunkOverlap and every separator, chunkText returns *)
(* the empty sequence, and addDocument with such a content returns no      *)
(* chunks and leaves the store as it was.                                  *)
C11_BlankNoChunks ==
  (Trim(text) = <<>> /\ ValidateOptions(chunkSize, chunkOverlap) = "ok") =>
    /\ pc # "error"
    /\ pc = "done" => out = <<>>
    /\ (last.op = "addDocument" /\ pc = "idle") =>
         /\ last.error = "ok"
         /\ last.result = <<>>
         /\ chunks = last.pre.chunks
         /\ Len(chunks) = Len(last.pre.chunks)

(* A content of spaces and a run of newlines, longer than chunkSize, added *)
(* to a store that holds chunks.                                           *)
C11_Witness ==
  /\ AddDocumentReturned
  /\ Trim(text) = <<>>
  /\ Len(text) > chunkSize
  /\ \E i \in 1..(Len(text) - 1) : text[i] = "\n" /\ text[i + 1] = "\n"
  /\ \E i \in 1..Len(text) : text[i] = " "
  /\ chunks # <<>>
  /\ last.result = <<>>

-----------------------------------------------------------------------------
(* More of the chunker's contract, over ChunkSpec. *)

NonWhitespace(s) == SelectSeq(s, LAMBDA c : c \notin Whitespace)

NoCarryOver == chunkOverlap = 0 /\ separator = <<>>

(* C21: with chunkOverlap = 0 and no separator, the non-whitespace         *)
(* characters of the fragments returned, concatenated in order, are the    *)
(* non-whitespace characters of the text: nothing is carried over and      *)
(* nothing is lost.                                                        *)
C21_NothingCarriedOrLost ==
  (pc = "done" /\ NoCarryOver) =>
    NonWhitespace(Flatten(out)) = NonWhitespace(text)

(* A text with whitespace in it, longer than chunkSize, returned in three  *)
(* fragments or more.                                                      *)
C21_Witness ==
  /\ pc = "done"
  /\ NoCarryOver
  /\ Len(text) > chunkSize
  /\ NonWhitespace(text) # text
  /\ Len(out) >= 3

(* C22: for a text without whitespace, of a length L > chunkSize, with     *)
(* chunkOverlap = 0 and no separator, chunkText returns ceil(L/chunkSize)  *)
(* fragments, the i-th (from 0) the characters [i * chunkSize,             *)
(* (i + 1) * chunkSize) of the text.                                       *)
C22_FixedSlices ==
  (/\ pc = "done"
   /\ NoCarryOver
   /\ NonWhitespace(text) = text
   /\ Len(text) > chunkSize) =>
    /\ Len(out) = (Len(text) + chunkSize - 1) \div chunkSize
    /\ \A i \in 1..Len(out) :
         out[i] = Slice(text, (i - 1) * chunkSize, i * chunkSize)

(* Three slices, the last one shorter than chunkSize. *)
C22_Witness ==
  /\ pc = "done"
  /\ NoCarryOver
  /\ NonWhitespace(text) = text
  /\ Len(text) > chunkSize
  /\ Len(out) = 3
  /\ Len(out[3]) < chunkSize
  /\ \E i \in 1..Len(text) : text[i] \in SentenceEnd

(* C27: chunkText terminates for every text and every valid chunkSize and  *)
(* chunkOverlap, with or without a separator: each iteration of the while  *)
(* loop of mergeSegments leaves a running chunk strictly shorter than the  *)
(* one it found.                                                           *)
C27_HardSplitShrinks ==
  [][pc = "split" => Len(current') < Len(current)]_vars

-----------------------------------------------------------------------------
(* More of the binary format's contract, over Spec. *)

HeaderValid == last.op = "fromBinary" /\ HeaderError(last.arg) = "ok"

(* C25: when fromBinary returns a store for a buffer with valid magic and  *)
(* version, the store holds one record for every entry of the record list  *)
(* of the metadata block, and its size is the record count of the header   *)
(* as well; a buffer in which the two numbers differ makes fromBinary      *)
(* throw.                                                                  *)
C25_AllRecordsOrThrow ==
  HeaderValid =>
    /\ last.error = "ok" =>
         /\ Len(chunks) = Len(last.arg.json.chunkMeta)
         /\ Len(chunks) = last.arg.chunkCount
         /\ \A i \in 1..Len(chunks) : chunks[i].id = last.arg.json.chunkMeta[i].id
    /\ last.arg.chunkCount # Len(last.arg.json.chunkMeta) => last.error # "ok"

-----------------------------------------------------------------------------
(* The ownership of the records, over AliasSpec. *)

(* C24: the chunks sequence of the index that serialize handed out keeps   *)
(* its length and its elements over every later add, addAll, remove and    *)
(* clear on the store, and appending to it or removing from it leaves the  *)
(* store's records as they were.                                           *)
C24_NoAliasing ==
  [][handedOut # None =>
       /\ last'.op \in {"add", "addAll", "remove", "clear"}
            => HandedOutChunks' = HandedOutChunks
       /\ last'.op \in {"push", "pop"} => chunks' = chunks]_vars

-----------------------------------------------------------------------------
(* The layout of the binary format, over Spec. *)

(* The vector block of the buffer is at offset 16 + L + p, after p zero    *)
(* bytes, and the buffer ends after c * d floats of 4 bytes.               *)
VectorBlockAt(buffer, c, d) ==
  LET unaligned == 16 + buffer.jsonLength
      p == (4 - (unaligned % 4)) % 4
      V == unaligned + p
  IN /\ p \in 0..3
     /\ V % 4 = 0
     /\ \A n \in unaligned..(V - 1) : n % 4 # 0
     /\ buffer.jsonAt = 16
     /\ buffer.jsonBytes = buffer.jsonLength
     /\ buffer.zeros = [i \in 1..p |-> 0]
     /\ buffer.floatsAt = V
     /\ Len(buffer.floats) = c * d
     /\ buffer.byteLength = V + c * d * 4

(* C23: for every length L of the metadata block, every record count c and *)
(* every dimensions d, toBinary puts the vector block at V = 16 + L + p     *)
(* with p = (4 - ((16 + L) mod 4)) mod 4, the smallest multiple of 4 that  *)
(* is >= 16 + L, after p zero bytes, in a buffer of V + c * d * 4 bytes,    *)
(* and fromBinary reads the vectors from there.                            *)
C23_VectorBlock ==
  /\ blob.kind = "binary" => VectorBlockAt(blob.buffer, Len(chunks), dimensions)
  /\ (last.op = "fromBinary" /\ Untampered) =>
       /\ last.error = "ok"
       /\ VectorBlockAt(last.arg, Len(chunks), dimensions)
       /\ \A i \in 1..Len(chunks) : \A j \in 1..dimensions :
            chunks[i].embedding[j] = last.arg.floats[(i - 1) * dimensions + j]

(* A buffer with three bytes of padding and two vectors, decoded. *)
C23_Witness ==
  /\ last.op = "fromBinary"
  /\ Untampered
  /\ last.arg.floatsAt - (16 + last.arg.jsonLength) = 3
  /\ Len(chunks) = 2
  /\ chunks[1].embedding # chunks[2].embedding

-----------------------------------------------------------------------------
(* The command line's contract, over CliSpec. *)

IsDigits(str) ==
  str # <<>> /\ \A i \in 1..Len(str) : \E d \in 0..9 : DigitChars[d + 1] = str[i]

RECURSIVE Decimal(_)
Decimal(str) ==
  IF str = <<>> THEN 0
  ELSE 10 * Decimal(SubSeq(str, 1, Len(str) - 1))
         + (CHOOSE d \in 0..9 : DigitChars[d + 1] = str[Len(str)])

(* The integers >= 0 passed as the value of the option --key. *)
Passed(args, key) ==
  {Decimal(args[i + 1]) :
     i \in {j \in 1..(Len(args) - 1) :
              args[j] = DashDash \o key /\ IsDigits(args[j + 1])}}

Absent(args, key) == \A i \in 1..Len(args) : args[i] # DashDash \o key

(* C26: build makes its RAG with the values of the command line: for every *)
(* integer n >= 0 passed as --chunk-overlap and every integer m > n passed *)
(* as --chunk-size, chunkOverlap = n and chunkSize = m; the defaults 50    *)
(* and 512 are for an option that is absent.                               *)
C26_ValuesAsGiven ==
  (last.op = "main" /\ last.error = "ok") =>
    /\ \A n \in Passed(last.arg, ChunkOverlapKey) :
         \A m \in Passed(last.arg, ChunkSizeKey) :
           m > n => opts.chunkOverlap = Some(n) /\ opts.chunkSize = Some(m)
    /\ Absent(last.arg, ChunkOverlapKey)
         => opts.chunkOverlap = Some(DEFAULT_CHUNK_OVERLAP)
    /\ Absent(last.arg, ChunkSizeKey)
         => opts.chunkSize = Some(DEFAULT_CHUNK_SIZE)

-----------------------------------------------------------------------------
(* The provider and the store of a RAG, over FactorySpec. *)

(* C28: for every RAG made by the constructor, withEmbedding, fromIndex,   *)
(* fromJSON or fromBinary, and after every operation on it, the dimensions *)
(* its provider declares are the dimensions of its store.                  *)
C28_SameDimensions == provider.dimensions = dimensions

-----------------------------------------------------------------------------
(* clear() among suspended calls of addChunks, over AsyncSpec. *)

(* The chunks of the n-th call of addChunks that the store holds. *)
InIndex(n) ==
  {i \in 1..Len(chunks) :
     \E j \in 1..Len(awaiting[n].chunks) : chunks[i].id = awaiting[n].chunks[j].id}

(* C29: once clear() has been called, no chunk of a call of addChunks      *)
(* made before that clear is in the index, however the calls interleave:   *)
(* a call still awaiting its embeddings at the clear adds nothing later.   *)
C29_ClearedStaysOut ==
  \A n \in 1..Len(awaiting) : awaiting[n].cleared => InIndex(n) = {}

-----------------------------------------------------------------------------
(* The load of a TransformersEmbedding, over LoadSpec. *)

LoadHasFailed ==
  provider.loads # <<>> /\ provider.loads[1] = "rejected"

(* C30: for one TransformersEmbedding, under any number and interleaving   *)
(* of calls of embed, the pipeline load is started at most once; a failed  *)
(* load is not started again, and every call of embed made during or after *)
(* a failed load fails with the load error.                                *)
C30_OneLoad ==
  /\ Len(provider.loads) <= 1
  /\ \A i \in 1..Len(awaiting) :
       LoadHasFailed =>
         /\ awaiting[i].state # "fulfilled"
         /\ awaiting[i].state = "rejected" => awaiting[i].error = LoadFailed

(* A call of embed just made after the load has failed and has failed the  *)
(* two calls made during it: no second load is started, and the call       *)
(* awaits the promise of the failed one.                                   *)
C30_Witness ==
  /\ LoadHasFailed
  /\ Len(provider.loads) = 1
  /\ Len(awaiting) = MaxEmbedCalls
  /\ \A i \in 1..(MaxEmbedCalls - 1) :
       awaiting[i].state = "rejected" /\ awaiting[i].error = LoadFailed
  /\ awaiting[MaxEmbedCalls].state = "pending"
  /\ awaiting[MaxEmbedCalls].awaits = provider.loadPromise
  /\ last.op = "embed"

=============================================================================
